---- MODULE Spec2Model ----
(***************************************************************************)
(* Model of scripts/process_prompt.py: the PromptProcessor class           *)
(* (validators, path confinement, config loading, the six-step pipeline)   *)
(* and the CLI entry point main().                                         *)
(*                                                                         *)
(* Python strings are modelled as sequences of one-character strings, so   *)
(* that startswith, substring tests, rstrip and the regular expressions    *)
(* are computed character by character, the way the interpreter does.      *)
(***************************************************************************)
EXTENDS Integers, Sequences, FiniteSets, TLC

VARIABLES
    call,       \* unit harness: the function applied and its arguments
    ret,        \* unit harness: what the call returned or raised
    pc,         \* main(): where the run stands
    args,       \* main(): the parsed command line
    processor,  \* main(): the PromptProcessor, once constructed
    clients,    \* the AWS clients created so far (boto3.client calls)
    idx,        \* main(): index of the configuration file of the loop
    loc,        \* process_prompt: its local variables
    results,    \* main(): results
    failed,     \* main(): failed
    fs,         \* the file system: resolved path -> file
    s3,         \* the object store: key -> object
    exited,     \* the process has ended
    exit_code,  \* its exit status
    printed,    \* the URLs of the summary
    error,      \* the exceptions raised so far, the latest last
    steps,      \* history: the steps run for the current record, and how each ended
    effects,    \* history: the external effects of the current record
    opened,     \* history: the files opened for reading
    finished,   \* history: the terminal state of each finished record
    attempted   \* history: the indexes process_prompt was called for, in order

harness == <<call, ret>>
mainvars == <<pc, args, processor, clients, idx, loc, results, failed, fs, s3,
              exited, exit_code, printed, error, steps, effects, opened, finished, attempted>>
vars == <<harness, mainvars>>

-----------------------------------------------------------------------------
(* Characters and string primitives                                        *)

LowerLetters == {"a","b","c","d","e","f","g","h","i","j","k","l","m",
                 "n","o","p","q","r","s","t","u","v","w","x","y","z"}
UpperLetters == {"A","B","C","D","E","F","G","H","I","J","K","L","M",
                 "N","O","P","Q","R","S","T","U","V","W","X","Y","Z"}
Digits == {"0","1","2","3","4","5","6","7","8","9"}
LF == "\n"

\* str.startswith(prefix)
StartsWith(s, prefix) ==
    /\ Len(prefix) <= Len(s)
    /\ \A i \in 1..Len(prefix) : s[i] = prefix[i]

\* str.endswith(suffix)
EndsWith(s, suffix) ==
    /\ Len(suffix) <= Len(s)
    /\ \A i \in 1..Len(suffix) : s[Len(s) - Len(suffix) + i] = suffix[i]

\* `sub in s`
Contains(s, sub) ==
    \E k \in 0..(Len(s) - Len(sub)) :
        \A i \in 1..Len(sub) : s[k + i] = sub[i]

\* every character of s is in the class cls
AllIn(s, cls) == \A i \in 1..Len(s) : s[i] \in cls

\* Where a pattern `^BODY$` may end under re.match / re.search without
\* re.MULTILINE: `$` matches at the end of the string and also just before a
\* line feed that ends it. The string matches when BODY accepts one of these.
DollarAnchored(s) ==
    {s} \cup (IF Len(s) >= 1 /\ s[Len(s)] = LF
              THEN {SubSeq(s, 1, Len(s) - 1)} ELSE {})

-----------------------------------------------------------------------------
(* PromptProcessor._validate_s3_bucket_name                                *)

BucketMinMiddle == 1
BucketMaxMiddle == 61

\* [a-z0-9][a-z0-9.-]{1,61}[a-z0-9]
BucketBody(s) ==
    /\ Len(s) >= 2 + BucketMinMiddle
    /\ Len(s) <= 2 + BucketMaxMiddle
    /\ s[1] \in LowerLetters \cup Digits
    /\ s[Len(s)] \in LowerLetters \cup Digits
    /\ AllIn(SubSeq(s, 2, Len(s) - 1), LowerLetters \cup Digits \cup {".", "-"})

_validate_s3_bucket_name(bucket_name) ==
    IF ~(\E m \in DollarAnchored(bucket_name) : BucketBody(m)) THEN FALSE
    ELSE IF \/ Contains(bucket_name, <<".", ".">>)
            \/ Contains(bucket_name, <<".", "-">>)
            \/ Contains(bucket_name, <<"-", ".">>) THEN FALSE
    ELSE TRUE

-----------------------------------------------------------------------------
(* PromptProcessor._validate_s3_prefix                                     *)

\* [a-zA-Z0-9/_-]*
PrefixBody(s) ==
    AllIn(s, LowerLetters \cup UpperLetters \cup Digits \cup {"/", "_", "-"})

_validate_s3_prefix(prefix) ==
    IF Contains(prefix, <<".", ".">>) \/ StartsWith(prefix, <<"/">>) THEN FALSE
    ELSE \E m \in DollarAnchored(prefix) : PrefixBody(m)

-----------------------------------------------------------------------------
(* Exceptions: a raised exception is a record of its class and of the     *)
(* fixed part of its message.                                              *)

Exc(type, msg) == [type |-> type, msg |-> msg]
Raise(type, msg) == [raised |-> TRUE, exc |-> Exc(type, msg)]
Return(v) == [raised |-> FALSE, value |-> v]

\* unit harness: a call that has not returned yet, and one that has
NotReturned == [done |-> FALSE]
Returned(v) == [done |-> TRUE, value |-> v]

MsgOutside == "outside allowed directory"
MsgInvalidPath == "Invalid path"

-----------------------------------------------------------------------------
(* pathlib: a path is a flag (absolute or not) and its segments, each a    *)
(* string; the file system holds symbolic links.                           *)

SegW == <<"w">>
SegEtc == <<"e","t","c">>
SegPrompts == <<"p","r","o","m","p","t","s">>
SegPrompts2 == <<"p","r","o","m","p","t","s","2">>
SegTemplates == <<"p","r","o","m","p","t","_","t","e","m","p","l","a","t","e","s">>
SegTemplatesBak == SegTemplates \o <<".","b","a","k">>
SegOutputs == <<"o","u","t","p","u","t","s">>
SegLink == <<"l","n","k">>
SegLoop == <<"l","o","o","p">>
DotDot == <<".", ".">>

\* the working directory of the process
Cwd == <<SegW>>

RelPath(segs) == [abs |-> FALSE, segs |-> segs]
AbsPath(segs) == [abs |-> TRUE, segs |-> segs]

\* symbolic links of the file system: link location -> absolute target
Symlinks ==
    (<<SegW, SegPrompts, SegLink>> :> <<SegEtc>>)
    @@ (<<SegW, SegLoop>> :> <<SegW, SegLoop>>)

MaxSymlinkHops == 4

\* Path.resolve(): make absolute, then walk the segments, dropping the last
\* one on "..", following a symbolic link where one is met; a chain of links
\* that does not end raises RuntimeError.
RECURSIVE ResolveWalk(_, _, _)
ResolveWalk(done, rest, hops) ==
    IF rest = <<>> THEN Return(done)
    ELSE IF Head(rest) = DotDot
         THEN ResolveWalk(IF done = <<>> THEN <<>>
                          ELSE SubSeq(done, 1, Len(done) - 1),
                          Tail(rest), hops)
    ELSE LET next == Append(done, Head(rest)) IN
         IF next \in DOMAIN Symlinks
         THEN IF hops = 0 THEN Raise("RuntimeError", "Symlink loop")
              ELSE ResolveWalk(<<>>, Symlinks[next] \o Tail(rest), hops - 1)
         ELSE ResolveWalk(next, Tail(rest), hops)

Resolve(path) ==
    ResolveWalk(<<>>, IF path.abs THEN path.segs ELSE Cwd \o path.segs,
                MaxSymlinkHops)

\* str(path) of an absolute path
RECURSIVE PathStr(_)
PathStr(segs) ==
    IF segs = <<>> THEN <<"/">>
    ELSE IF Len(segs) = 1 THEN <<"/">> \o segs[1]
    ELSE PathStr(SubSeq(segs, 1, Len(segs) - 1)) \o <<"/">> \o segs[Len(segs)]

\* class attributes, resolved when the class is defined
PROMPT_TEMPLATES_DIR == Resolve(RelPath(<<SegTemplates>>)).value
OUTPUTS_DIR == Resolve(RelPath(<<SegOutputs>>)).value
PROMPTS_DIR == Resolve(RelPath(<<SegPrompts>>)).value

\* the test of line 183
PathStartsWithBase(resolved_path, resolved_base) ==
    StartsWith(PathStr(resolved_path), PathStr(resolved_base))

\* the body of the try block of _validate_path
ValidatePathTry(file_path, base_dir) ==
    LET resolved_path == Resolve(file_path)
        resolved_base == Resolve(AbsPath(base_dir))
    IN  IF resolved_path.raised THEN resolved_path
        ELSE IF resolved_base.raised THEN resolved_base
        ELSE IF ~PathStartsWithBase(resolved_path.value, resolved_base.value)
             THEN Raise("ValueError", MsgOutside)
        ELSE Return(resolved_path.value)

\* `except Exception as e: raise ValueError(f"Invalid path: {file_path}")`
ValidatePathExcept(attempt) ==
    IF attempt.raised THEN Raise("ValueError", MsgInvalidPath) ELSE attempt

_validate_path(file_path, base_dir) ==
    ValidatePathExcept(ValidatePathTry(file_path, base_dir))

-----------------------------------------------------------------------------
(* JSON values as json.load returns them, and PROMPT_CONFIG_SCHEMA as      *)
(* jsonschema.validate applies it.  A number is kept in thousandths.       *)

JStr(s) == [t |-> "string", s |-> s]
JNum(milli) == [t |-> "number", milli |-> milli]
JBool(b) == [t |-> "boolean", b |-> b]
JNull == [t |-> "null"]
JArr(items) == [t |-> "array", items |-> items]
JObj(members) == [t |-> "object", members |-> members]

EmptyMembers == [k \in {} |-> JNull]

Has(obj, key) == obj.t = "object" /\ key \in DOMAIN obj.members

\* one violated keyword of the schema, at a property
SchemaError(at, keyword) == [at |-> at, keyword |-> keyword]

\* jsonschema "type": "integer": a number without a fractional part
IsInteger(v) == v.t = "number" /\ v.milli % 1000 = 0

IdentChars == LowerLetters \cup UpperLetters \cup Digits \cup {"_", "-"}
DotTxt == <<".", "t", "x", "t">>

\* [a-zA-Z0-9_-]+\.txt
TemplateNameBody(s) ==
    /\ Len(s) >= Len(DotTxt) + 1
    /\ EndsWith(s, DotTxt)
    /\ AllIn(SubSeq(s, 1, Len(s) - Len(DotTxt)), IdentChars)

\* [a-zA-Z0-9_-]+
OutputNameBody(s) == Len(s) >= 1 /\ AllIn(s, IdentChars)

MaxTokensMinimum == 1
MaxTokensMaximum == 100000

\* the violations jsonschema finds in one member of "model_params"
ModelParamsErrors(mp) ==
    IF mp.t # "object" THEN {SchemaError("model_params", "type")}
    ELSE
      (IF Has(mp, "max_tokens") /\ ~IsInteger(mp.members["max_tokens"])
       THEN {SchemaError("max_tokens", "type")} ELSE {})
      \cup (IF /\ Has(mp, "max_tokens")
               /\ mp.members["max_tokens"].t = "number"
               /\ \/ mp.members["max_tokens"].milli < MaxTokensMinimum * 1000
                  \/ mp.members["max_tokens"].milli > MaxTokensMaximum * 1000
            THEN {SchemaError("max_tokens", "range")} ELSE {})
      \cup UNION { (IF Has(mp, k) /\ mp.members[k].t # "number"
                    THEN {SchemaError(k, "type")} ELSE {})
                   \cup (IF /\ Has(mp, k)
                            /\ mp.members[k].t = "number"
                            /\ \/ mp.members[k].milli < 0
                               \/ mp.members[k].milli > 1000
                         THEN {SchemaError(k, "range")} ELSE {}) :
                   k \in {"temperature", "top_p"} }

RequiredKeys == {"template", "output_name", "variables"}

\* a schema that leaves "variables" unconstrained
VariablesUnchecked(config) == {}

\* "variables": {"type": "object"}
VariablesTypeErrors(config) ==
    IF Has(config, "variables") /\ config.members["variables"].t # "object"
    THEN {SchemaError("variables", "type")} ELSE {}

\* every violation of PROMPT_CONFIG_SCHEMA by the instance (iter_errors)
SchemaErrors(config) ==
    IF config.t # "object" THEN {SchemaError("", "type")}
    ELSE
      {SchemaError("required", r) : r \in {k \in RequiredKeys : ~Has(config, k)}}
      \cup (IF Has(config, "template") /\ config.members["template"].t # "string"
            THEN {SchemaError("template", "type")} ELSE {})
      \cup (IF /\ Has(config, "template")
               /\ config.members["template"].t = "string"
               /\ ~(\E m \in DollarAnchored(config.members["template"].s) :
                        TemplateNameBody(m))
            THEN {SchemaError("template", "pattern")} ELSE {})
      \cup (IF Has(config, "output_name") /\ config.members["output_name"].t # "string"
            THEN {SchemaError("output_name", "type")} ELSE {})
      \cup (IF /\ Has(config, "output_name")
               /\ config.members["output_name"].t = "string"
               /\ ~(\E m \in DollarAnchored(config.members["output_name"].s) :
                        OutputNameBody(m))
            THEN {SchemaError("output_name", "pattern")} ELSE {})
      \cup (IF Has(config, "output_format")
               /\ config.members["output_format"].t # "string"
            THEN {SchemaError("output_format", "type")} ELSE {})
      \cup (IF Has(config, "output_format")
               /\ config.members["output_format"] \notin
                    {JStr(<<"h","t","m","l">>), JStr(<<"m","d">>)}
            THEN {SchemaError("output_format", "enum")} ELSE {})
      \cup (IF Has(config, "model_id") /\ config.members["model_id"].t # "string"
            THEN {SchemaError("model_id", "type")} ELSE {})
      \cup (IF Has(config, "model_params")
            THEN ModelParamsErrors(config.members["model_params"]) ELSE {})
      \cup VariablesTypeErrors(config)

\* validate(instance=config, schema=PROMPT_CONFIG_SCHEMA)
SchemaValidate(config) ==
    IF SchemaErrors(config) # {} THEN Raise("ValidationError", "schema")
    ELSE Return(config)

-----------------------------------------------------------------------------
(* Files: the file system maps a resolved path to a file.  A file has a    *)
(* size in bytes, a text, and (for a configuration file) what json.load    *)
(* makes of it.                                                            *)

BadJson == [ok |-> FALSE]
GoodJson(doc) == [ok |-> TRUE, doc |-> doc]

ConfigFile(json) == [size |-> 1, text |-> <<>>, json |-> json]
TextFile(size, text) == [size |-> size, text |-> text, json |-> BadJson]

IsDir(files, segs) ==
    \E f \in DOMAIN files : Len(f) > Len(segs) /\ SubSeq(f, 1, Len(segs)) = segs

\* open(path, 'r')
OpenRead(files, segs) ==
    IF segs \in DOMAIN files THEN Return(files[segs])
    ELSE IF IsDir(files, segs) THEN Raise("IsADirectoryError", "Is a directory")
    ELSE Raise("FileNotFoundError", "No such file or directory")

\* json.load(f)
JsonLoad(file) ==
    IF file.json.ok THEN Return(file.json.doc)
    ELSE Raise("JSONDecodeError", "Expecting value")

MAX_TEMPLATE_SIZE == 102400
MAX_VARIABLES == 50

\* len(x) of a JSON value; None and numbers have no len()
PyLen(v) ==
    IF v.t = "object" THEN Return(Cardinality(DOMAIN v.members))
    ELSE IF v.t = "array" THEN Return(Len(v.items))
    ELSE IF v.t = "string" THEN Return(Len(v.s))
    ELSE Raise("TypeError", "has no len()")

\* config.get('variables', {})
GetVariables(config) ==
    IF Has(config, "variables") THEN config.members["variables"]
    ELSE JObj(EmptyMembers)

\* a limit test that is off by one
TooManyVariablesOffByOne(n) == n >= MAX_VARIABLES

\* len(...) > self.MAX_VARIABLES
TooManyVariables(n) == n > MAX_VARIABLES

\* PromptProcessor.load_config, once the path is validated and the file open
LoadConfigBody(file) ==
    LET parsed == JsonLoad(file) IN
    IF parsed.raised THEN Raise("ValueError", "Invalid JSON")
    ELSE IF SchemaValidate(parsed.value).raised
         THEN Raise("ValueError", "Invalid configuration")
    ELSE LET n == PyLen(GetVariables(parsed.value)) IN
         IF n.raised THEN n
         ELSE IF TooManyVariables(n.value)
              THEN Raise("ValueError", "Too many variables")
         ELSE Return(parsed.value)

load_config(files, config_path) ==
    LET validated_path == _validate_path(config_path, PROMPTS_DIR) IN
    IF validated_path.raised THEN validated_path
    ELSE LET f == OpenRead(files, validated_path.value) IN
         IF f.raised THEN f
         ELSE LoadConfigBody(f.value)

\* the files load_config opens for reading
LoadConfigOpens(files, config_path) ==
    LET validated_path == _validate_path(config_path, PROMPTS_DIR) IN
    IF validated_path.raised \/ OpenRead(files, validated_path.value).raised
    THEN {}
    ELSE {validated_path.value}

-----------------------------------------------------------------------------
(* PromptProcessor.load_template                                           *)

\* a load_template without the path check
LoadTemplateUnchecked(files, template_path) ==
    LET f == OpenRead(files, Resolve(template_path).value) IN
    IF f.raised THEN f ELSE Return(f.value.text)

\* the path check, then stat and the size test, then open and read; stat and
\* open fail alike on a missing file, and the size test precedes the read
load_template(files, template_path) ==
    LET validated_path == _validate_path(template_path, PROMPT_TEMPLATES_DIR) IN
    IF validated_path.raised THEN validated_path
    ELSE LET f == OpenRead(files, validated_path.value) IN
         IF f.raised THEN f
         ELSE IF f.value.size > MAX_TEMPLATE_SIZE
              THEN Raise("ValueError", "Template too large")
         ELSE Return(f.value.text)

\* the paths load_template calls stat() on (line 262)
LoadTemplateStats(files, template_path) ==
    LET validated_path == _validate_path(template_path, PROMPT_TEMPLATES_DIR) IN
    IF validated_path.raised THEN {} ELSE {validated_path.value}

\* the files load_template opens for reading
LoadTemplateOpens(files, template_path) ==
    IF load_template(files, template_path).raised THEN {}
    ELSE LoadTemplateStats(files, template_path)

-----------------------------------------------------------------------------
(* PromptProcessor.render_template: string.Template.substitute             *)

IdStart == LowerLetters \cup UpperLetters \cup {"_"}
IdRest == IdStart \cup Digits

\* the last index of the identifier that starts at index i
RECURSIVE IdEnd(_, _)
IdEnd(s, i) ==
    IF i + 1 <= Len(s) /\ s[i + 1] \in IdRest THEN IdEnd(s, i + 1) ELSE i

RECURSIVE Digits10(_)
Digits10(n) ==
    IF n < 10 THEN <<CHOOSE d \in Digits : d = ToString(n)>>
    ELSE Digits10(n \div 10) \o Digits10(n % 10)

\* the fractional part of a float's repr, in thousandths, zeros dropped
Fraction(m) ==
    IF m % 100 = 0 THEN Digits10(m \div 100)
    ELSE IF m % 10 = 0
         THEN Digits10(m \div 100) \o Digits10((m \div 10) % 10)
    ELSE Digits10(m \div 100) \o Digits10((m \div 10) % 10) \o Digits10(m % 10)

\* str(value) of a variable's value (a container is shown by its brackets)
PyStr(v) ==
    IF v.t = "string" THEN v.s
    ELSE IF v.t = "number"
         THEN (IF v.milli < 0 THEN <<"-">> ELSE <<>>)
              \o LET a == IF v.milli < 0 THEN -v.milli ELSE v.milli IN
                 IF a % 1000 = 0 THEN Digits10(a \div 1000)
                 ELSE Digits10(a \div 1000) \o <<".">> \o Fraction(a % 1000)
    ELSE IF v.t = "boolean"
         THEN (IF v.b THEN <<"T","r","u","e">> ELSE <<"F","a","l","s","e">>)
    ELSE IF v.t = "null" THEN <<"N","o","n","e">>
    ELSE IF v.t = "array" THEN <<"[", "]">>
    ELSE <<"{", "}">>

KeyError(name) == [raised |-> TRUE,
                   exc |-> [type |-> "KeyError", msg |-> "", key |-> name]]

\* mapping[name]
Lookup(variables, name) ==
    IF name \in DOMAIN variables.members
    THEN Return(PyStr(variables.members[name]))
    ELSE KeyError(name)

\* a pattern without the braced form
MatchAtNoBraces(s, i, variables) ==
    IF i + 1 <= Len(s) /\ s[i + 1] = "$"
    THEN [sub |-> Return(<<"$">>), next |-> i + 2]
    ELSE IF i + 1 <= Len(s) /\ s[i + 1] \in IdStart
    THEN [sub |-> Lookup(variables, SubSeq(s, i + 1, IdEnd(s, i + 1))),
          next |-> IdEnd(s, i + 1) + 1]
    ELSE [sub |-> Raise("ValueError", "Invalid placeholder in string"),
          next |-> i + 1]

\* one match of Template.pattern at index i, where s[i] = "$":
\* what it is replaced by, and the index after it
MatchAt(s, i, variables) ==
    IF i + 1 <= Len(s) /\ s[i + 1] = "$"
    THEN [sub |-> Return(<<"$">>), next |-> i + 2]
    ELSE IF i + 1 <= Len(s) /\ s[i + 1] \in IdStart
    THEN [sub |-> Lookup(variables, SubSeq(s, i + 1, IdEnd(s, i + 1))),
          next |-> IdEnd(s, i + 1) + 1]
    ELSE IF /\ i + 2 <= Len(s)
            /\ s[i + 1] = "{"
            /\ s[i + 2] \in IdStart
            /\ IdEnd(s, i + 2) + 1 <= Len(s)
            /\ s[IdEnd(s, i + 2) + 1] = "}"
    THEN [sub |-> Lookup(variables, SubSeq(s, i + 2, IdEnd(s, i + 2))),
          next |-> IdEnd(s, i + 2) + 2]
    ELSE [sub |-> Raise("ValueError", "Invalid placeholder in string"),
          next |-> i + 1]

\* Template(s).substitute(variables), from index i on, left to right
RECURSIVE Substitute(_, _, _)
Substitute(s, i, variables) ==
    IF i > Len(s) THEN Return(<<>>)
    ELSE IF s[i] # "$"
    THEN LET rest == Substitute(s, i + 1, variables) IN
         IF rest.raised THEN rest ELSE Return(<<s[i]>> \o rest.value)
    ELSE LET m == MatchAt(s, i, variables) IN
         IF m.sub.raised THEN m.sub
         ELSE LET rest == Substitute(s, m.next, variables) IN
              IF rest.raised THEN rest
              ELSE Return(m.sub.value \o rest.value)

\* an except clause whose message leaves the name out
MissingVariableUnnamed(name) ==
    [raised |-> TRUE,
     exc |-> [type |-> "ValueError", msg |-> "Missing required variable",
              key |-> <<>>]]

\* a render that ends its result with a line feed
RenderWithNewline(template_content, variables) ==
    LET rendered == Substitute(template_content, 1, variables) IN
    IF rendered.raised THEN rendered ELSE Return(rendered.value \o <<LF>>)

MissingVariable(name) ==
    [raised |-> TRUE,
     exc |-> [type |-> "ValueError", msg |-> "Missing required variable",
              key |-> name]]

render_template(template_content, variables) ==
    LET rendered == Substitute(template_content, 1, variables) IN
    IF rendered.raised /\ rendered.exc.type = "KeyError"
    THEN MissingVariable(rendered.exc.key)
    ELSE rendered

-----------------------------------------------------------------------------
(* PromptProcessor.invoke_bedrock                                          *)

MarkerClaude == <<"a","n","t","h","r","o","p","i","c",".","c","l","a","u","d","e">>
MarkerTitan == <<"a","m","a","z","o","n",".","t","i","t","a","n">>

DefaultModelId ==
    MarkerClaude \o <<"-","3","-","s","o","n","n","e","t","-","2","0","2","4",
                      "0","2","2","9","-","v","1",":","0">>

DefaultMaxTokens == JNum(2048000)
DefaultTemperature == JNum(700)
DefaultTopP == JNum(900)

DefaultModelParams ==
    JObj(("max_tokens" :> DefaultMaxTokens) @@ ("temperature" :> DefaultTemperature)
         @@ ("top_p" :> DefaultTopP))

\* a request that ignores the given parameters
ParamGetAlwaysDefault(model_params, key, default) == default

\* model_params.get(key, default)
ParamGet(model_params, key, default) ==
    IF Has(model_params, key) THEN model_params.members[key] ELSE default

\* a chain that takes every other identifier for the first family
ModelFamilyLenient(model_id) ==
    IF Contains(model_id, MarkerTitan) /\ ~Contains(model_id, MarkerClaude)
    THEN "amazon.titan"
    ELSE "anthropic.claude"

\* the if / elif chain on the model identifier (lines 329, 342 and 365, 367)
ModelFamily(model_id) ==
    IF Contains(model_id, MarkerClaude) THEN "anthropic.claude"
    ELSE IF Contains(model_id, MarkerTitan) THEN "amazon.titan"
    ELSE "unsupported"

\* the request body, before json.dumps
RequestBody(family, prompt, model_params) ==
    IF family = "anthropic.claude"
    THEN [anthropic_version |-> "bedrock-2023-05-31",
          max_tokens |-> ParamGet(model_params, "max_tokens", DefaultMaxTokens),
          temperature |-> ParamGet(model_params, "temperature", DefaultTemperature),
          top_p |-> ParamGet(model_params, "top_p", DefaultTopP),
          messages |-> <<[role |-> "user", content |-> prompt]>>]
    ELSE [inputText |-> prompt,
          textGenerationConfig |->
            [maxTokenCount |-> ParamGet(model_params, "max_tokens", DefaultMaxTokens),
             temperature |-> ParamGet(model_params, "temperature", DefaultTemperature),
             topP |-> ParamGet(model_params, "top_p", DefaultTopP)]]

\* the generation service: the shape of the response body of a model
ServiceResponseBody(model_id, text) ==
    IF Contains(model_id, <<"a","n","t","h","r","o","p","i","c",".">>)
    THEN [content |-> <<[type |-> "text", text |-> text]>>]
    ELSE [results |-> <<[outputText |-> text]>>]

\* response_body[...] of lines 366 and 368
ExtractText(family, response_body) ==
    IF family = "anthropic.claude"
    THEN IF "content" \in DOMAIN response_body
         THEN Return(response_body.content[1].text)
         ELSE KeyError(<<"content">>)
    ELSE IF family = "amazon.titan"
    THEN IF "results" \in DOMAIN response_body
         THEN Return(response_body.results[1].outputText)
         ELSE KeyError(<<"results">>)
    ELSE Return(<<"s","t","r">>)

\* no except clause: the error of the SDK reaches the caller as it is
InvokeExceptPassThrough(outcome) == Raise(outcome.kind, "invoke_model")

\* the except clauses of lines 372-379
InvokeExcept(outcome) ==
    IF outcome.kind = "ClientError"
    THEN Raise("RuntimeError", "Bedrock invocation failed")
    ELSE Raise("RuntimeError", "AWS SDK error")

\* invoke_bedrock with the outcome of the network call: the modelId and body
\* it sent (when it sent any) and what it returns or raises
invoke_bedrock(prompt, model_id_arg, model_params_arg, outcome) ==
    LET model_id == IF model_id_arg = JNull THEN DefaultModelId ELSE model_id_arg.s
        model_params == IF model_params_arg = JNull THEN DefaultModelParams
                        ELSE model_params_arg
        family == ModelFamily(model_id)
    IN  IF family = "unsupported"
        THEN [sent |-> <<>>, result |-> Raise("ValueError", "Unsupported model family")]
        ELSE [sent |-> <<[modelId |-> model_id,
                          body |-> RequestBody(family, prompt, model_params)]>>,
              result |->
                IF outcome.kind = "response"
                THEN ExtractText(ModelFamily(model_id),
                                 ServiceResponseBody(model_id, outcome.text))
                ELSE InvokeExcept(outcome)]

-----------------------------------------------------------------------------
(* PromptProcessor.save_output                                             *)

Whitespace == {" ", "\t", LF, "\r", "\f"}

RECURSIVE LStrip(_)
LStrip(s) == IF s # <<>> /\ Head(s) \in Whitespace THEN LStrip(Tail(s)) ELSE s

RECURSIVE RStrip(_)
RStrip(s) ==
    IF s # <<>> /\ s[Len(s)] \in Whitespace
    THEN RStrip(SubSeq(s, 1, Len(s) - 1)) ELSE s

\* str.strip()
Strip(s) == RStrip(LStrip(s))

Doctype == <<"<","!","D","O","C","T","Y","P","E">>
HtmlTag == <<"<","h","t","m","l">>
FormatHtml == <<"h","t","m","l">>
FormatMd == <<"m","d">>

\* the fixed envelope around {content}; its head and style are one element
EnvelopeHead ==
    Doctype \o <<" ","h","t","m","l",">", LF,
                 "<html lang=en><head>meta charset, viewport; title; style</head>",
                 LF, "<","b","o","d","y",">", LF>>
EnvelopeFoot == <<LF, "<","/","b","o","d","y",">", LF, "<","/","h","t","m","l",">">>

\* a test that looks at the format only
NeedsEnvelopeAlways(content, format_type) == format_type = FormatHtml

\* the test of line 391
NeedsEnvelope(content, format_type) ==
    /\ format_type = FormatHtml
    /\ ~StartsWith(Strip(content), Doctype)
    /\ ~StartsWith(Strip(content), HtmlTag)

\* what save_output writes
SavedContent(content, format_type) ==
    IF NeedsEnvelope(content, format_type)
    THEN EnvelopeHead \o content \o EnvelopeFoot
    ELSE content

\* open(output_path, 'w'); f.write(content): the file system afterwards
WriteFile(files, segs, content) ==
    [f \in DOMAIN files \cup {segs} |->
        IF f = segs THEN TextFile(Len(content), content) ELSE files[f]]

-----------------------------------------------------------------------------
(* PromptProcessor.upload_to_s3                                            *)

ContentType(s3_key) ==
    IF EndsWith(s3_key, <<".">> \o FormatHtml) THEN "text/html"
    ELSE IF EndsWith(s3_key, <<".">> \o FormatMd) THEN "text/markdown"
    ELSE "text/plain"

\* f"https://{bucket}.s3.{region}.amazonaws.com/{key}", part by part
S3Url(s3_bucket, aws_region, s3_key) ==
    [scheme |-> "https://", bucket |-> s3_bucket, dot_s3 |-> ".s3.",
     region |-> aws_region, host |-> ".amazonaws.com/", key |-> s3_key]

\* the object upload_file stores
S3Object(file, s3_key) ==
    [body |-> file.text, ContentType |-> ContentType(s3_key),
     CacheControl |-> "max-age=300"]

\* upload_to_s3 with the outcome of upload_file: what it returns or raises
\* (only ClientError is caught, line 466)
upload_to_s3(proc, s3_key, outcome) ==
    IF outcome = "ok" THEN Return(S3Url(proc.s3_bucket, proc.aws_region, s3_key))
    ELSE IF outcome = "ClientError" THEN Raise("RuntimeError", "S3 upload failed")
    ELSE Raise(outcome, "upload_file")

-----------------------------------------------------------------------------
(* PromptProcessor.__init__                                                *)

ALLOWED_REGIONS ==
    {"us-east-1", "us-east-2", "us-west-1", "us-west-2",
     "eu-west-1", "eu-west-2", "eu-central-1",
     "ap-southeast-1", "ap-southeast-2", "ap-northeast-1"}

\* s.rstrip('/')
RECURSIVE RStripSlash(_)
RStripSlash(s) ==
    IF s # <<>> /\ s[Len(s)] = "/"
    THEN RStripSlash(SubSeq(s, 1, Len(s) - 1)) ELSE s

\* the three validations of lines 99-109, in their order
InitValidation(aws_region, s3_bucket, s3_prefix) ==
    IF aws_region \notin ALLOWED_REGIONS
    THEN Raise("ValueError", "Invalid AWS region")
    ELSE IF ~_validate_s3_bucket_name(s3_bucket)
    THEN Raise("ValueError", "Invalid S3 bucket name")
    ELSE IF ~_validate_s3_prefix(s3_prefix)
    THEN Raise("ValueError", "Invalid S3 prefix")
    ELSE Return([exists |-> TRUE, aws_region |-> aws_region,
                 s3_bucket |-> s3_bucket,
                 s3_prefix |-> RStripSlash(s3_prefix) \o <<"/">>])

NoProcessor ==
    [exists |-> FALSE, aws_region |-> "", s3_bucket |-> <<>>, s3_prefix |-> <<>>]

-----------------------------------------------------------------------------
(* PromptProcessor.process_prompt: the steps between its calls             *)

StepOrder == <<"load_config", "load_template", "render_template",
               "invoke_bedrock", "save_output", "upload_to_s3">>

\* a process_prompt that swallows a step's exception and carries on
NextPcIgnoresFailure(step, result) ==
    IF step = "load_config" THEN "load_template"
    ELSE IF step = "load_template" THEN "render_template"
    ELSE IF step = "render_template" THEN "invoke_bedrock"
    ELSE IF step = "invoke_bedrock" THEN "save_output"
    ELSE IF step = "save_output" THEN "upload_to_s3"
    ELSE "return"

\* a process_prompt that returns its result although the upload failed
NextPcReturnsAfterFailedUpload(step, result) ==
    IF step = "upload_to_s3" THEN "return"
    ELSE IF result.raised THEN "except"
    ELSE IF step = "load_config" THEN "load_template"
    ELSE IF step = "load_template" THEN "render_template"
    ELSE IF step = "render_template" THEN "invoke_bedrock"
    ELSE IF step = "invoke_bedrock" THEN "save_output"
    ELSE "upload_to_s3"

\* process_prompt has no try block: an exception raised by a step leaves it
\* and reaches the except clause of main; otherwise the next line runs
NextPc(step, result) ==
    IF result.raised THEN "except"
    ELSE IF step = "load_config" THEN "load_template"
    ELSE IF step = "load_template" THEN "render_template"
    ELSE IF step = "render_template" THEN "invoke_bedrock"
    ELSE IF step = "invoke_bedrock" THEN "save_output"
    ELSE IF step = "save_output" THEN "upload_to_s3"
    ELSE "return"

\* `not x` of a value read with config.get
Falsy(v) ==
    \/ v.t = "null"
    \/ v.t = "string" /\ v.s = <<>>
    \/ v.t = "number" /\ v.milli = 0
    \/ v.t = "boolean" /\ ~v.b
    \/ v.t = "array" /\ v.items = <<>>
    \/ v.t = "object" /\ DOMAIN v.members = {}

\* config.get(key, default)
ConfigGet(config, key, default) ==
    IF Has(config, key) THEN config.members[key] ELSE default

\* lines 491-507: the locals taken from the configuration
ExtractConfig(config) ==
    LET template_name == ConfigGet(config, "template", JNull)
        output_name == ConfigGet(config, "output_name", JNull)
        output_format == ConfigGet(config, "output_format", JStr(FormatHtml))
    IN  IF Falsy(template_name)
        THEN Raise("ValueError", "Config must specify 'template' field")
        ELSE IF Falsy(output_name)
        THEN Raise("ValueError", "Config must specify 'output_name' field")
        ELSE Return([template_name |-> template_name.s,
                     variables |-> ConfigGet(config, "variables", JObj(EmptyMembers)),
                     output_name |-> output_name.s,
                     output_format |-> output_format.s,
                     model_id |-> ConfigGet(config, "model_id", JNull),
                     model_params |-> ConfigGet(config, "model_params", JObj(EmptyMembers)),
                     template_path |-> RelPath(<<SegTemplates, template_name.s>>),
                     output_path |-> SegOutputs \o <<"/">> \o output_name.s
                                     \o <<".">> \o output_format.s,
                     template_content |-> <<>>,
                     rendered_prompt |-> <<>>,
                     generated_content |-> <<>>,
                     s3_key |-> <<>>,
                     s3_url |-> S3Url(<<>>, "", <<>>)])

NoLocals == ExtractConfig(JObj(("template" :> JStr(<<"-">>))
                              @@ ("output_name" :> JStr(<<"-">>)))).value

\* load_config followed by lines 491-507
LoadAndExtract(files, config_path) ==
    LET config == load_config(files, config_path) IN
    IF config.raised THEN config ELSE ExtractConfig(config.value)

\* where open(output_path, 'w') writes
OutputFile(l) == Cwd \o <<SegOutputs, l.output_name \o <<".">> \o l.output_format>>

\* a key that leaves the prefix out
S3KeyWithoutPrefix(proc, l) ==
    SegOutputs \o <<"/">> \o l.output_name \o <<".">> \o l.output_format

\* line 536
S3Key(proc, l) ==
    proc.s3_prefix \o SegOutputs \o <<"/">> \o l.output_name
        \o <<".">> \o l.output_format

\* lines 539-545
ProcessingResult(config_path, l) ==
    [config_path |-> config_path, output_path |-> l.output_path,
     s3_key |-> l.s3_key, s3_url |-> l.s3_url, status |-> "success"]

-----------------------------------------------------------------------------
(* The run of main(): its inputs                                           *)

MaxBatch == 2

NoBucket == <<>>
BucketMy == <<"m","y","-","b","u","c","k","e","t">>
BucketUpper == <<"M","y","_","B">>
BucketLF == <<"b","-","1", LF>>

PrefixBeta == <<"b","e","t","a","/">>
PrefixTraversal == <<".",".","/","e","t","c","/">>

RegionInputs == {"us-east-1", "mars-north-1"}
BucketInputs == {NoBucket, BucketMy, BucketUpper, BucketLF}
PrefixSlashes == <<"a","/","/">>
PrefixInputs == {PrefixBeta, <<>>, PrefixTraversal, PrefixSlashes}

TplName == <<"t",".","t","x","t">>
TplGone == <<"x",".","t","x","t">>
TplBig == <<"b","i","g",".","t","x","t">>
VarN == <<"n">>

FixtureDoc(template, output_name, variables) ==
    JObj(("template" :> JStr(template)) @@ ("output_name" :> JStr(output_name))
         @@ ("variables" :> JObj(variables)))

DocGood == FixtureDoc(TplName, <<"o","u","t">>, VarN :> JStr(<<"J","o">>))
DocTitan ==
    JObj(("output_format" :> JStr(FormatMd))
         @@ ("model_id" :> JStr(MarkerTitan \o <<"-","t","e","x","t">>))
         @@ ("model_params" :> JObj("max_tokens" :> JNum(100000)))
         @@ FixtureDoc(TplName, <<"d","o","c">>, VarN :> JNum(5000)).members)
DocLlama ==
    JObj(("model_id" :> JStr(<<"m","e","t","a",".","l","l","a","m","a">>))
         @@ DocGood.members)
DocNoVar == FixtureDoc(TplName, <<"o","u","t">>, EmptyMembers)
DocNoTpl == FixtureDoc(TplGone, <<"o","u","t">>, VarN :> JStr(<<"J","o">>))
DocBigTpl == FixtureDoc(TplBig, <<"o","u","t">>, VarN :> JStr(<<"J","o">>))

FileGood == <<"g","o","o","d">>
FileTitan == <<"t","i","t","a","n">>
FileLlama == <<"l","l","a","m","a">>
FileNoVar == <<"n","o","v","a","r">>
FileNoTpl == <<"n","o","t","p","l">>
FileBigTpl == <<"b","i","g","t","p","l">>
FileBad == <<"b","a","d">>
FileGone == <<"g","o","n","e">>

\* the files on disk when the run starts
InitialFiles ==
    (<<SegW, SegPrompts, FileGood>> :> ConfigFile(GoodJson(DocGood)))
    @@ (<<SegW, SegPrompts, FileTitan>> :> ConfigFile(GoodJson(DocTitan)))
    @@ (<<SegW, SegPrompts, FileLlama>> :> ConfigFile(GoodJson(DocLlama)))
    @@ (<<SegW, SegPrompts, FileNoVar>> :> ConfigFile(GoodJson(DocNoVar)))
    @@ (<<SegW, SegPrompts, FileNoTpl>> :> ConfigFile(GoodJson(DocNoTpl)))
    @@ (<<SegW, SegPrompts, FileBigTpl>> :> ConfigFile(GoodJson(DocBigTpl)))
    @@ (<<SegW, SegPrompts, FileBad>> :> ConfigFile(BadJson))
    @@ (<<SegW, SegPrompts2, FileGood>> :> ConfigFile(GoodJson(DocGood)))
    @@ (<<SegEtc, FileGood>> :> ConfigFile(GoodJson(DocGood)))
    @@ (<<SegW, SegTemplates, TplName>> :> TextFile(5, <<"H","i"," ","$","n">>))
    @@ (<<SegW, SegTemplates, TplBig>> :> TextFile(MAX_TEMPLATE_SIZE + 1, <<"$","n">>))

ConfigFileArgs ==
    {RelPath(<<SegPrompts, f>>) :
        f \in {FileGood, FileTitan, FileLlama, FileNoVar, FileNoTpl, FileBigTpl,
               FileBad, FileGone}}
    \cup {RelPath(<<SegPrompts2, FileGood>>), AbsPath(<<SegEtc, FileGood>>)}

ArgsInputs ==
    {[region |-> r, bucket |-> b, prefix |-> p, config_files |-> c] :
        r \in RegionInputs, b \in BucketInputs, p \in PrefixInputs,
        c \in UNION {[1..n -> ConfigFileArgs] : n \in 1..MaxBatch}}

GeneratedTexts == {<<"o","k">>, <<" ">> \o Doctype \o <<" ","h","t","m","l",">">>}

NetOutcomes ==
    {[kind |-> "response", text |-> x] : x \in GeneratedTexts}
    \cup {[kind |-> "ClientError", text |-> <<>>],
          [kind |-> "BotoCoreError", text |-> <<>>]}

SaveOutcomes == {"ok", "OSError"}
UploadOutcomes == {"ok", "ClientError", "S3UploadFailedError"}

NoError == Exc("", "")
\* what a record has done so far: the calls it made and how the two network
\* calls ended
NoEffects ==
    [invoke_calls |-> 0, file_writes |-> 0, upload_calls |-> 0,
     invoke_outcome |-> "none", upload_outcome |-> "none"]
NoObjects == [k \in {} |-> S3Object(TextFile(0, <<>>), <<>>)]

HarnessIdle == call = [fn |-> "main"] /\ ret = NotReturned

MainStart(a) ==
    /\ pc = "main"
    /\ args = a
    /\ processor = NoProcessor
    /\ clients = 0
    /\ idx = 0
    /\ loc = NoLocals
    /\ results = <<>>
    /\ failed = <<>>
    /\ fs = InitialFiles
    /\ s3 = NoObjects
    /\ exited = FALSE
    /\ exit_code = 0
    /\ printed = <<>>
    /\ error = NoError
    /\ steps = <<>>
    /\ effects = NoEffects
    /\ opened = {}
    /\ finished = <<>>
    /\ attempted = <<>>

\* the main variables of a run that is not started (unit harness)
MainIdle ==
    /\ pc = "unit"
    /\ args = [region |-> "", bucket |-> NoBucket, prefix |-> <<>>,
               config_files |-> <<>>]
    /\ processor = NoProcessor
    /\ clients = 0
    /\ idx = 0
    /\ loc = NoLocals
    /\ results = <<>>
    /\ failed = <<>>
    /\ fs = InitialFiles
    /\ s3 = NoObjects
    /\ exited = FALSE
    /\ exit_code = 0
    /\ printed = <<>>
    /\ error = NoError
    /\ steps = <<>>
    /\ effects = NoEffects
    /\ opened = {}
    /\ finished = <<>>
    /\ attempted = <<>>

Init == HarnessIdle /\ \E a \in ArgsInputs : MainStart(a)

-----------------------------------------------------------------------------
(* The run of main(): its steps                                            *)

\* sys.exit(code), or the interpreter ending on an uncaught exception
Exit(code) ==
    /\ exited' = TRUE
    /\ exit_code' = code
    /\ pc' = "done"

\* lines 577-580
CheckBucket ==
    /\ pc = "main"
    /\ IF args.bucket = NoBucket
       THEN Exit(1)
       ELSE pc' = "init" /\ UNCHANGED <<exited, exit_code>>
    /\ UNCHANGED <<harness, args, processor, clients, idx, loc, results, failed,
                   fs, s3, printed, error, steps, effects, opened, finished,
                   attempted>>

\* lines 582-587 and __init__: the validations, then the two boto3.client
\* calls, either of which may raise; an exception of __init__ is not caught
\* by main and ends the process with status 1
Construct ==
    /\ pc = "init"
    /\ \E made \in 0..2 :
        LET p == InitValidation(args.region, args.bucket, args.prefix) IN
        IF p.raised
        THEN /\ Exit(1)
             /\ error' = p.exc
             /\ UNCHANGED <<processor, clients>>
        ELSE IF made < 2
        THEN /\ Exit(1)
             /\ error' = Exc("BotoCoreError", "boto3.client")
             /\ clients' = made
             /\ UNCHANGED processor
        ELSE /\ processor' = p.value
             /\ clients' = made
             /\ pc' = "loop"
             /\ UNCHANGED <<exited, exit_code, error>>
    /\ UNCHANGED <<harness, args, idx, loc, results, failed, fs, s3, printed,
                   steps, effects, opened, finished, attempted>>

\* an except clause that gives up the batch
AfterFailureAbort == "summary"

\* the except clause leaves the loop running (lines 598-600)
AfterFailure == "loop"

\* line 593: the next configuration file, or the end of the loop
Loop ==
    /\ pc = "loop"
    /\ IF idx < Len(args.config_files)
       THEN /\ idx' = idx + 1
            /\ pc' = "load_config"
            /\ loc' = NoLocals
            /\ steps' = <<>>
            /\ effects' = NoEffects
            /\ attempted' = Append(attempted, idx + 1)
       ELSE /\ pc' = "summary"
            /\ UNCHANGED <<idx, loc, steps, effects, attempted>>
    /\ UNCHANGED <<harness, args, processor, clients, results, failed, fs, s3,
                   exited, exit_code, printed, error, opened, finished>>

\* what every step does once its result r is known
StepDone(step, r) ==
    /\ steps' = Append(steps, [step |-> step, ok |-> ~r.raised])
    /\ error' = IF r.raised THEN r.exc ELSE error
    /\ pc' = NextPc(step, r)

\* lines 488-507
StepLoadConfig ==
    /\ pc = "load_config"
    /\ LET r == LoadAndExtract(fs, args.config_files[idx]) IN
        /\ StepDone("load_config", r)
        /\ loc' = IF r.raised THEN loc ELSE r.value
        /\ opened' = opened \cup LoadConfigOpens(fs, args.config_files[idx])
    /\ UNCHANGED <<harness, args, processor, clients, idx, results, failed, fs,
                   s3, exited, exit_code, printed, effects, finished, attempted>>

\* line 513
StepLoadTemplate ==
    /\ pc = "load_template"
    /\ LET r == load_template(fs, loc.template_path) IN
        /\ StepDone("load_template", r)
        /\ loc' = IF r.raised THEN loc ELSE [loc EXCEPT !.template_content = r.value]
        /\ opened' = opened \cup LoadTemplateOpens(fs, loc.template_path)
    /\ UNCHANGED <<harness, args, processor, clients, idx, results, failed, fs,
                   s3, exited, exit_code, printed, effects, finished, attempted>>

\* line 514
StepRender ==
    /\ pc = "render_template"
    /\ LET r == render_template(loc.template_content, loc.variables) IN
        /\ StepDone("render_template", r)
        /\ loc' = IF r.raised THEN loc ELSE [loc EXCEPT !.rendered_prompt = r.value]
    /\ UNCHANGED <<harness, args, processor, clients, idx, results, failed, fs,
                   s3, exited, exit_code, printed, effects, opened, finished,
                   attempted>>

\* lines 520-526
StepInvoke ==
    /\ pc = "invoke_bedrock"
    /\ \E o \in NetOutcomes :
        LET r == invoke_bedrock(loc.rendered_prompt, loc.model_id,
                                loc.model_params, o) IN
        /\ StepDone("invoke_bedrock", r.result)
        /\ loc' = IF r.result.raised THEN loc
                  ELSE [loc EXCEPT !.generated_content = r.result.value]
        /\ effects' = [effects EXCEPT
                          !.invoke_calls = @ + Len(r.sent),
                          !.invoke_outcome = IF r.sent = <<>> THEN @ ELSE o.kind]
    /\ UNCHANGED <<harness, args, processor, clients, idx, results, failed, fs,
                   s3, exited, exit_code, printed, opened, finished, attempted>>

\* line 533: save_output, whose makedirs / open may raise
StepSave ==
    /\ pc = "save_output"
    /\ \E o \in SaveOutcomes :
        LET r == IF o = "ok" THEN Return(loc.output_path)
                 ELSE Raise(o, "makedirs / open") IN
        /\ StepDone("save_output", r)
        /\ fs' = IF r.raised THEN fs
                 ELSE WriteFile(fs, OutputFile(loc),
                                SavedContent(loc.generated_content, loc.output_format))
        /\ effects' = IF r.raised THEN effects
                      ELSE [effects EXCEPT !.file_writes = @ + 1]
    /\ UNCHANGED <<harness, args, processor, clients, idx, loc, results, failed,
                   s3, exited, exit_code, printed, opened, finished, attempted>>

\* lines 535-537
StepUpload ==
    /\ pc = "upload_to_s3"
    /\ \E o \in UploadOutcomes :
        LET s3_key == S3Key(processor, loc)
            r == upload_to_s3(processor, s3_key, o) IN
        /\ StepDone("upload_to_s3", r)
        /\ loc' = IF r.raised THEN [loc EXCEPT !.s3_key = s3_key]
                  ELSE [loc EXCEPT !.s3_key = s3_key, !.s3_url = r.value]
        /\ s3' = IF o # "ok" THEN s3
                 ELSE [k \in DOMAIN s3 \cup {s3_key} |->
                        IF k = s3_key THEN S3Object(fs[OutputFile(loc)], s3_key)
                        ELSE s3[k]]
        /\ effects' = [effects EXCEPT !.upload_calls = @ + 1,
                                       !.upload_outcome = o]
    /\ UNCHANGED <<harness, args, processor, clients, idx, results, failed, fs,
                   exited, exit_code, printed, opened, finished, attempted>>

\* lines 539-545 and 595-597: process_prompt returns, main appends the result
ReturnResult ==
    /\ pc = "return"
    /\ results' = Append(results, ProcessingResult(args.config_files[idx], loc))
    /\ finished' = Append(finished, "Success")
    /\ pc' = "loop"
    /\ UNCHANGED <<harness, args, processor, clients, idx, loc, failed, fs, s3,
                   exited, exit_code, printed, error, steps, effects, opened,
                   attempted>>

\* lines 598-600: `except Exception`
Except ==
    /\ pc = "except"
    /\ failed' = Append(failed, args.config_files[idx])
    /\ finished' = Append(finished, "Failed")
    /\ pc' = AfterFailure
    /\ UNCHANGED <<harness, args, processor, clients, idx, loc, results, fs, s3,
                   exited, exit_code, printed, error, steps, effects, opened,
                   attempted>>

\* a summary that always reports success
SummaryExitCodeZero(failed_files) == 0

\* lines 614-618: the exit status of the summary
SummaryExitCode(failed_files) == IF failed_files # <<>> THEN 1 ELSE 0

\* lines 602-620
Summary ==
    /\ pc = "summary"
    /\ printed' = [i \in 1..Len(results) |-> results[i].s3_url]
    /\ Exit(SummaryExitCode(failed))
    /\ UNCHANGED <<harness, args, processor, clients, idx, loc, results, failed,
                   fs, s3, error, steps, effects, opened, finished, attempted>>

Next ==
    \/ CheckBucket
    \/ Construct
    \/ Loop
    \/ StepLoadConfig
    \/ StepLoadTemplate
    \/ StepRender
    \/ StepInvoke
    \/ StepSave
    \/ StepUpload
    \/ ReturnResult
    \/ Except
    \/ Summary

Spec == Init /\ [][Next]_vars

\* every call made by the run returns, so a step that is due is taken
FairSpec == Spec /\ WF_vars(Next)

-----------------------------------------------------------------------------
(* Bounded inputs of the validators                                        *)

MaxShortLen == 4
LongSlack == 2

NameAlphabet == {"a", "0", "A", "_", ".", "-", "/", LF}

RECURSIVE Repeat(_, _)
Repeat(c, n) == IF n = 0 THEN <<>> ELSE <<c>> \o Repeat(c, n - 1)

ShortStrings == UNION {[1..n -> NameAlphabet] : n \in 0..MaxShortLen}

\* names around the 63-character limit, with and without a final line feed
LongStrings ==
    UNION { { Repeat("a", n), Repeat("a", n) \o <<LF>>,
              Repeat("a", n - 1) \o <<"-">>, <<".">> \o Repeat("a", n - 1),
              Repeat("a", n - 3) \o <<".", ".", "b">> } :
            n \in (2 + BucketMaxMiddle - LongSlack)..(2 + BucketMaxMiddle + LongSlack) }

ValidatorInputs == ShortStrings \cup LongStrings


InitBucket ==
    /\ call \in {[fn |-> "_validate_s3_bucket_name", arg |-> s] : s \in ValidatorInputs}
    /\ ret = NotReturned
    /\ MainIdle

CallValidateBucket ==
    /\ call.fn = "_validate_s3_bucket_name"
    /\ ~ret.done
    /\ ret' = Returned(_validate_s3_bucket_name(call.arg))
    /\ UNCHANGED <<call, mainvars>>

SpecBucket == InitBucket /\ [][CallValidateBucket]_vars

InitPrefix ==
    /\ call \in {[fn |-> "_validate_s3_prefix", arg |-> s] : s \in ValidatorInputs}
    /\ ret = NotReturned
    /\ MainIdle

CallValidatePrefix ==
    /\ call.fn = "_validate_s3_prefix"
    /\ ~ret.done
    /\ ret' = Returned(_validate_s3_prefix(call.arg))
    /\ UNCHANGED <<call, mainvars>>

SpecPrefix == InitPrefix /\ [][CallValidatePrefix]_vars

-----------------------------------------------------------------------------
(* Bounded inputs of _validate_path                                        *)

MaxPathLen == 3

FileCfg == <<"c",".","j","s","o","n">>

PathSegments == {SegW, SegPrompts, SegPrompts2, SegEtc, SegLink, SegLoop,
                 DotDot, FileCfg}

PathInputs ==
    {[abs |-> a, segs |-> s] :
        a \in BOOLEAN, s \in UNION {[1..n -> PathSegments] : n \in 0..MaxPathLen}}

BaseDirs == {PROMPTS_DIR, PROMPT_TEMPLATES_DIR}

InitPath ==
    /\ call \in {[fn |-> "_validate_path", file_path |-> p, base_dir |-> b] :
                    p \in PathInputs, b \in BaseDirs}
    /\ ret = NotReturned
    /\ MainIdle

CallValidatePath ==
    /\ call.fn = "_validate_path"
    /\ ~ret.done
    /\ ret' = Returned(_validate_path(call.file_path, call.base_dir))
    /\ UNCHANGED <<call, mainvars>>

SpecPath == InitPath /\ [][CallValidatePath]_vars

\* the resolved location is the base directory or lies beneath it
IsWithin(segs, base) ==
    /\ Len(base) <= Len(segs)
    /\ SubSeq(segs, 1, Len(base)) = base

(* C4: _validate_path returns a resolved path only when the resolved       *)
(* candidate is the resolved base directory or lies beneath it; a          *)
(* candidate resolving to a parent, an unrelated or a sibling directory    *)
(* is rejected.                                                            *)
C4_PathConfined ==
    (call.fn = "_validate_path" /\ ret.done /\ ~ret.value.raised)
        => IsWithin(ret.value.value, call.base_dir)

\* what the code does confine: the accepted path's string starts with the
\* base directory's string
C4_StringPrefixOnly ==
    (call.fn = "_validate_path" /\ ret.done /\ ~ret.value.raised)
        => PathStartsWithBase(ret.value.value, call.base_dir)

(* C5: for a path that resolves outside the base directory the error that  *)
(* reaches the caller is a ValueError saying "outside allowed directory".  *)
ResolvesOutside(file_path, base_dir) ==
    /\ ~Resolve(file_path).raised
    /\ ~IsWithin(Resolve(file_path).value, base_dir)

C5_OutsideMessage ==
    (/\ call.fn = "_validate_path"
     /\ ret.done
     /\ ret.value.raised
     /\ ResolvesOutside(call.file_path, call.base_dir))
        => ret.value.exc = Exc("ValueError", MsgOutside)

\* every rejection reaches the caller as ValueError "Invalid path"
C5_AlwaysInvalidPath ==
    (call.fn = "_validate_path" /\ ret.done /\ ret.value.raised)
        => ret.value.exc = Exc("ValueError", MsgInvalidPath)

-----------------------------------------------------------------------------
(* Bounded inputs of load_config                                           *)

MaxExtraVariables == 2

\* the n-th variable name: v, vv, vvv, ...
VarKey(n) == Repeat("v", n)

VariablesOf(n, value) == JObj([k \in {VarKey(i) : i \in 1..n} |-> value])

VariableCounts ==
    {0, 1, MAX_VARIABLES - 1} \cup
    {MAX_VARIABLES + k : k \in 0..MaxExtraVariables}

Absent == [t |-> "absent"]

TemplateInputs ==
    {Absent, JStr(<<"t",".","t","x","t">>), JStr(<<>>), JNum(1000), JNull,
     JStr(<<".",".","/","e","t","c","/","p","a","s","s","w","d">>),
     JStr(<<"t",".","t","x","t", LF>>)}

OutputNameInputs ==
    {Absent, JStr(<<"o","u","t">>), JStr(<<>>), JNum(1000),
     JStr(<<"a","/","b">>)}

VariablesInputs ==
    {Absent, JNull, JStr(<<"x">>), JArr(<<JStr(<<"x">>)>>)}
    \cup {VariablesOf(n, JStr(<<"x">>)) : n \in VariableCounts}
    \cup {VariablesOf(1, v) :
            v \in {JNum(5000), JBool(TRUE), JNull, JArr(<<>>),
                   JObj(EmptyMembers)}}
    \cup {JObj((VarKey(1) :> JStr(<<"x">>)) @@ (VarKey(2) :> JNum(1500)))}

OutputFormatInputs ==
    {Absent, JStr(<<"h","t","m","l">>), JStr(<<"m","d">>), JStr(<<"p","d","f">>)}

ModelParamsInputs ==
    {Absent, JStr(<<"x">>), JObj(EmptyMembers),
     JObj(("max_tokens" :> JNum(2048000)) @@ ("temperature" :> JNum(700))
          @@ ("top_p" :> JNum(900))),
     JObj("max_tokens" :> JNum(0)),
     JObj("max_tokens" :> JNum(1500)),
     JObj("temperature" :> JNum(2000)),
     JObj("top_p" :> JStr(<<"x">>))}

\* the JSON object with the given members, the absent ones left out
DocOf(fields) ==
    JObj([k \in {f \in DOMAIN fields : fields[f] # Absent} |-> fields[k]])

ConfigDocs ==
    {JArr(<<>>), JStr(<<"x">>), JNull} \cup
    {DocOf([template |-> tp, output_name |-> on, variables |-> vs,
            output_format |-> of, model_params |-> mp]) :
        tp \in TemplateInputs, on \in OutputNameInputs, vs \in VariablesInputs,
        of \in OutputFormatInputs, mp \in ModelParamsInputs}

ConfigFileInputs == {ConfigFile(BadJson)} \cup {ConfigFile(GoodJson(d)) : d \in ConfigDocs}

ConfigPathInputs ==
    {RelPath(<<SegPrompts, FileCfg>>), RelPath(<<SegPrompts2, FileCfg>>),
     RelPath(<<SegPrompts, DotDot, SegEtc, FileCfg>>)}

\* a file system holding the one file, at each place a path input points to
FilesWith(file) ==
    [f \in {<<SegW, SegPrompts, FileCfg>>, <<SegW, SegPrompts2, FileCfg>>,
            <<SegW, SegEtc, FileCfg>>} |-> file]

InitConfig ==
    /\ call \in {[fn |-> "load_config", config_path |-> p, files |-> FilesWith(f)] :
                    p \in ConfigPathInputs, f \in ConfigFileInputs}
    /\ ret = NotReturned
    /\ MainIdle

CallLoadConfig ==
    /\ call.fn = "load_config"
    /\ ~ret.done
    /\ ret' = [done |-> TRUE,
               value |-> load_config(call.files, call.config_path),
               opened |-> LoadConfigOpens(call.files, call.config_path)]
    /\ UNCHANGED <<call, mainvars>>

SpecConfig == InitConfig /\ [][CallLoadConfig]_vars

-----------------------------------------------------------------------------
\* the configuration file the call reads, when its path leads to one
CalledDoc == call.files[<<SegW, SegPrompts, FileCfg>>].json

NonEmptyString(obj, key) ==
    /\ Has(obj, key)
    /\ obj.members[key].t = "string"
    /\ obj.members[key].s # <<>>

CountOfVariables(doc) ==
    IF Has(doc, "variables") /\ doc.members["variables"].t = "object"
    THEN Cardinality(DOMAIN doc.members["variables"].members)
    ELSE 0

\* a configuration with nothing wrong but, possibly, its variables
PlainDoc(variables) ==
    DocOf([template |-> JStr(<<"t",".","t","x","t">>),
           output_name |-> JStr(<<"o","u","t">>),
           variables |-> variables,
           output_format |-> Absent, model_params |-> Absent])

(* C9: a record returned by load_config has a non-empty template, a        *)
(* non-empty output_name and at most 50 variables, and is the parsed       *)
(* document itself; 51 or more variables are rejected, exactly 50 are      *)
(* accepted, a missing template, output_name or variables is rejected;     *)
(* a rejected configuration yields an error and no record.                 *)
C9_LoadConfigContract ==
    (call.fn = "load_config" /\ ret.done) =>
        /\ ~ret.value.raised =>
              /\ NonEmptyString(ret.value.value, "template")
              /\ NonEmptyString(ret.value.value, "output_name")
              /\ Has(ret.value.value, "variables")
              /\ CountOfVariables(ret.value.value) <= 50
              /\ CalledDoc.ok
              /\ ret.value.value = CalledDoc.doc
        /\ (CalledDoc.ok /\ CountOfVariables(CalledDoc.doc) >= 51)
              => ret.value.raised
        /\ (CalledDoc.ok /\ \E k \in RequiredKeys : ~Has(CalledDoc.doc, k))
              => ret.value.raised
        /\ (/\ call.config_path = RelPath(<<SegPrompts, FileCfg>>)
            /\ CalledDoc.ok
            /\ CountOfVariables(CalledDoc.doc) <= 50
            /\ CalledDoc.doc =
                 PlainDoc(VariablesOf(CountOfVariables(CalledDoc.doc), JStr(<<"x">>))))
              => ~ret.value.raised
        /\ ret.value.raised => DOMAIN ret.value = {"raised", "exc"}

\* a configuration with exactly 50 variables was accepted
C9_Witness ==
    /\ call.fn = "load_config"
    /\ ret.done
    /\ ~ret.value.raised
    /\ CountOfVariables(ret.value.value) = 50

C9_WitnessRejected51 ==
    /\ call.fn = "load_config"
    /\ ret.done
    /\ ret.value.raised
    /\ CalledDoc.ok
    /\ CalledDoc.doc = PlainDoc(VariablesOf(51, JStr(<<"x">>)))
    /\ ret.value.exc = Exc("ValueError", "Too many variables")

(* C10 (as claimed): every accepted record's variables are all strings;    *)
(* a configuration with a non-string variable value is rejected.           *)
C10_VariablesAllStrings ==
    (call.fn = "load_config" /\ ret.done /\ ~ret.value.raised) =>
        \A k \in DOMAIN ret.value.value.members["variables"].members :
            ret.value.value.members["variables"].members[k].t = "string"

(* C10 (amended): every accepted record's variables member is a JSON       *)
(* object, and a configuration whose variables is not an object is         *)
(* rejected; the values in it are not constrained: with a number, a        *)
(* boolean, null, a list or a nested object as a value the configuration   *)
(* is accepted.                                                            *)
C10_VariablesIsObject ==
    (call.fn = "load_config" /\ ret.done) =>
        /\ ~ret.value.raised =>
              ret.value.value.members["variables"].t = "object"
        /\ (/\ CalledDoc.ok
            /\ Has(CalledDoc.doc, "variables")
            /\ CalledDoc.doc.members["variables"].t # "object")
              => ret.value.raised
        /\ (/\ call.config_path = RelPath(<<SegPrompts, FileCfg>>)
            /\ CalledDoc.ok
            /\ \E v \in {JNum(5000), JBool(TRUE), JNull, JArr(<<>>),
                         JObj(EmptyMembers)} :
                 CalledDoc.doc = PlainDoc(VariablesOf(1, v)))
              => ~ret.value.raised

\* a configuration with a numeric variable value was accepted
C10_Witness ==
    /\ call.fn = "load_config"
    /\ ret.done
    /\ ~ret.value.raised
    /\ \E k \in DOMAIN ret.value.value.members["variables"].members :
          ret.value.value.members["variables"].members[k].t = "number"

-----------------------------------------------------------------------------
(* C6: _validate_s3_bucket_name(s) is true exactly when s is 3 to 63       *)
(* characters long, made only of lowercase letters, digits, '.' and '-',   *)
(* starts and ends with a lowercase letter or digit and contains none of   *)
(* "..", ".-", "-.".                                                       *)
BucketRules(s) ==
    /\ Len(s) >= 3
    /\ Len(s) <= 63
    /\ AllIn(s, LowerLetters \cup Digits \cup {".", "-"})
    /\ s[1] \in LowerLetters \cup Digits
    /\ s[Len(s)] \in LowerLetters \cup Digits
    /\ ~Contains(s, <<".", ".">>)
    /\ ~Contains(s, <<".", "-">>)
    /\ ~Contains(s, <<"-", ".">>)

C6_BucketNameIff ==
    (call.fn = "_validate_s3_bucket_name" /\ ret.done)
        => (ret.value <=> BucketRules(call.arg))

\* the same equivalence on names that do not end in a line feed
C6_BucketNameIffNoFinalLF ==
    (/\ call.fn = "_validate_s3_bucket_name"
     /\ ret.done
     /\ ~EndsWith(call.arg, <<LF>>))
        => (ret.value <=> BucketRules(call.arg))

(* C7: _validate_s3_prefix(s) is true exactly when s contains no "..",     *)
(* does not start with "/", and is made only of letters, digits, '/', '_'  *)
(* and '-' (the empty string included).                                    *)
PrefixRules(s) ==
    /\ ~Contains(s, <<".", ".">>)
    /\ ~StartsWith(s, <<"/">>)
    /\ AllIn(s, LowerLetters \cup UpperLetters \cup Digits \cup {"/", "_", "-"})

C7_PrefixIff ==
    (call.fn = "_validate_s3_prefix" /\ ret.done)
        => (ret.value <=> PrefixRules(call.arg))

C7_PrefixIffNoFinalLF ==
    (/\ call.fn = "_validate_s3_prefix"
     /\ ret.done
     /\ ~EndsWith(call.arg, <<LF>>))
        => (ret.value <=> PrefixRules(call.arg))

-----------------------------------------------------------------------------
(* Claims about the run of main()                                          *)

AllOk(n) == \A k \in 1..n : steps[k].ok

(* C1: for one record the steps run in the order load config, load         *)
(* template, render, invoke, write, upload; a step starts only after all   *)
(* earlier ones succeeded; the first failing step ends the record as       *)
(* Failed with no later step run (no generation call after a failed load   *)
(* or render, no write after a failed generation, no upload after a failed *)
(* write); Success is reached only after the upload succeeded.             *)
C1_LinearPipeline ==
    pc # "unit" =>
        /\ Len(steps) <= Len(StepOrder)
        /\ \A k \in 1..Len(steps) : steps[k].step = StepOrder[k]
        /\ AllOk(Len(steps) - 1)
        /\ pc \in {StepOrder[k] : k \in 1..Len(StepOrder)} =>
              AllOk(Len(steps)) /\ pc = StepOrder[Len(steps) + 1]
        /\ pc = "except" => Len(steps) >= 1 /\ ~steps[Len(steps)].ok
        /\ pc = "return" => Len(steps) = 6 /\ AllOk(6)
        /\ effects.invoke_calls > 0 => Len(steps) >= 4 /\ AllOk(3)
        /\ effects.file_writes > 0 => Len(steps) >= 5 /\ AllOk(4)
        /\ effects.upload_calls > 0 => Len(steps) >= 6 /\ AllOk(5)
        /\ (pc = "loop" /\ idx > 0) =>
              /\ Len(finished) = idx
              /\ finished[idx] = "Success" <=> (Len(steps) = 6 /\ AllOk(6))
              /\ finished[idx] = "Failed" <=> ~AllOk(Len(steps))

\* a record whose generation call failed: Failed, nothing written or uploaded
C1_Witness ==
    /\ pc = "loop"
    /\ idx > 0
    /\ finished[idx] = "Failed"
    /\ Len(steps) = 4
    /\ effects.invoke_calls = 1
    /\ effects.file_writes = 0
    /\ effects.upload_calls = 0

\* the indexes of the finished records that ended in the given state
RECURSIVE EndedIn(_, _)
EndedIn(state, n) ==
    IF n = 0 THEN <<>>
    ELSE IF finished[n] = state THEN Append(EndedIn(state, n - 1), n)
    ELSE EndedIn(state, n - 1)

\* how far the run is from its end
StepsLeft ==
    IF pc = "done" THEN 0
    ELSE IF pc = "summary" THEN 1
    ELSE IF pc = "loop" THEN 2 + 9 * (Len(args.config_files) - idx)
    ELSE IF pc = "main" THEN 4 + 9 * Len(args.config_files)
    ELSE IF pc = "init" THEN 3 + 9 * Len(args.config_files)
    ELSE 2 + 9 * (Len(args.config_files) - idx)
         + (CHOOSE k \in 1..8 :
              <<"return", "except", "upload_to_s3", "save_output", "invoke_bedrock",
                "render_template", "load_template", "load_config">>[k] = pc)

C2_Batch ==
    pc # "unit" =>
        /\ attempted = [i \in 1..idx |-> i]
        /\ idx <= Len(args.config_files)
        /\ Len(finished) = IF pc \in {"main", "init", "loop", "summary", "done"}
                           THEN idx ELSE idx - 1
        /\ \A k \in 1..Len(finished) : finished[k] \in {"Success", "Failed"}
        /\ Len(results) + Len(failed) = Len(finished)
        /\ Len(results) = Len(EndedIn("Success", Len(finished)))
        /\ \A j \in 1..Len(results) :
              results[j].config_path =
                  args.config_files[EndedIn("Success", Len(finished))[j]]
        /\ Len(failed) = Len(EndedIn("Failed", Len(finished)))
        /\ \A j \in 1..Len(failed) :
              failed[j] = args.config_files[EndedIn("Failed", Len(finished))[j]]
        /\ (exited /\ processor.exists) =>
              /\ idx = Len(args.config_files)
              /\ Len(results) + Len(failed) = Len(args.config_files)
              /\ Len(printed) = Len(results)
              /\ \A j \in 1..Len(results) : printed[j] = results[j].s3_url
        /\ exited <=> pc = "done"
        /\ pc \in {"main", "init", "loop", "summary", "done", "return", "except"}
                 \cup {StepOrder[k] : k \in 1..Len(StepOrder)}

(* C2: in a batch a failed record never stops a later one: every record is *)
(* attempted exactly once, in input order, and ends in exactly one of      *)
(* Success (one result appended) or Failed (in the failed list); at the    *)
(* end succeeded + failed is the number of records and the summary lists   *)
(* one URL per succeeded record and none for a failed one.  Until it has   *)
(* exited the run stands at a line that can be executed, and every step    *)
(* brings the end nearer.                                                  *)
C2_BatchIsolation == []C2_Batch /\ [][StepsLeft' < StepsLeft]_vars

\* a batch whose first record failed and whose second succeeded, at its end
C2_Witness ==
    /\ exited
    /\ Len(args.config_files) = 2
    /\ finished = <<"Failed", "Success">>
    /\ Len(printed) = 1
    /\ exit_code = 1

(* C3 (as claimed): the run ends with a non-zero status if and only if a   *)
(* record failed or no bucket is configured.                               *)
C3_ExitStatusAsClaimed ==
    (pc # "unit" /\ exited) =>
        (exit_code # 0 <=> (failed # <<>> \/ args.bucket = NoBucket))

\* the constructor raised: a bucket is configured and no processor exists
ConstructionFailed == exited /\ args.bucket # NoBucket /\ ~processor.exists

(* C3 (amended): the run ends with a non-zero status if and only if a      *)
(* record failed, no bucket is configured, or the construction of the      *)
(* processor failed (region, bucket name or prefix rejected, or an AWS     *)
(* client not created).  In the last two cases the run ends before any     *)
(* record is processed.                                                    *)
C3_ExitStatus ==
    pc # "unit" =>
        /\ exited =>
              (exit_code # 0 <=>
                  (failed # <<>> \/ args.bucket = NoBucket \/ ConstructionFailed))
        /\ exit_code \in {0, 1}
        /\ (args.bucket = NoBucket \/ ConstructionFailed) =>
              /\ attempted = <<>>
              /\ steps = <<>>
              /\ opened = {}
              /\ results = <<>>
        /\ args.bucket = NoBucket => ~processor.exists /\ clients = 0

\* a run with a bucket configured and no failed record that ends with 1
C3_Witness ==
    /\ exited
    /\ exit_code = 1
    /\ args.bucket # NoBucket
    /\ failed = <<>>
    /\ error = Exc("ValueError", "Invalid AWS region")

\* a run that processed its records and ended with 1 because one failed
C3_WitnessFailedRecord ==
    /\ exited
    /\ exit_code = 1
    /\ processor.exists
    /\ failed # <<>>
    /\ results # <<>>

(* C8: construction fails when the region is not allowed, the bucket name  *)
(* is invalid or the prefix is invalid, in that order, before any AWS      *)
(* client is created and before any record is processed; a processor       *)
(* exists only with an allowed region, a valid bucket name and a valid     *)
(* prefix.                                                                 *)
C8_ProcessorOnlyIfValid ==
    pc # "unit" =>
        /\ processor.exists =>
              /\ args.region \in ALLOWED_REGIONS
              /\ BucketRules(args.bucket)
              /\ PrefixRules(args.prefix)
        /\ (/\ pc \notin {"main", "init"}
            /\ args.bucket # NoBucket
            /\ \/ args.region \notin ALLOWED_REGIONS
               \/ ~BucketRules(args.bucket)
               \/ ~PrefixRules(args.prefix))
              => /\ ~processor.exists
                 /\ clients = 0
                 /\ attempted = <<>>
                 /\ error.type = "ValueError"

\* what the constructor does ensure: the region is allowed and its own two
\* validators accepted the bucket name and the prefix, checked in that order,
\* before any client is created
C8_ConstructorChecks ==
    pc # "unit" =>
        /\ processor.exists =>
              /\ args.region \in ALLOWED_REGIONS
              /\ _validate_s3_bucket_name(args.bucket)
              /\ _validate_s3_prefix(args.prefix)
              /\ clients = 2
        /\ (pc \notin {"main", "init"} /\ args.bucket # NoBucket) =>
              /\ args.region \notin ALLOWED_REGIONS
                    => error = Exc("ValueError", "Invalid AWS region") /\ clients = 0
              /\ (args.region \in ALLOWED_REGIONS
                  /\ ~_validate_s3_bucket_name(args.bucket))
                    => error = Exc("ValueError", "Invalid S3 bucket name") /\ clients = 0
              /\ (/\ args.region \in ALLOWED_REGIONS
                  /\ _validate_s3_bucket_name(args.bucket)
                  /\ ~_validate_s3_prefix(args.prefix))
                    => error = Exc("ValueError", "Invalid S3 prefix") /\ clients = 0

-----------------------------------------------------------------------------
(* load_template, called directly and from process_prompt (lines 489-513)  *)

SegPasswd == <<"p","a","s","s","w","d">>
TraversalName == <<".",".","/","e","t","c","/","p","a","s","s","w","d">>
TraversalPath == RelPath(<<DotDot, DotDot, SegEtc, SegPasswd>>)

TemplateSegments == {SegTemplates, SegTemplatesBak, SegEtc, SegPasswd, DotDot, TplName}

TemplatePathInputs ==
    {[abs |-> a, segs |-> s] :
        a \in BOOLEAN,
        s \in UNION {[1..n -> TemplateSegments] : n \in 0..(MaxPathLen + 1)}}

TemplateNameInputs ==
    {TraversalName, TplName, TplGone, TplName \o <<LF>>, <<".",".">>,
     <<".",".","/","t",".","t","x","t">>, <<"/","e","t","c","/","p","a","s","s","w","d">>}

TemplateFiles ==
    (<<SegW, SegTemplates, TplName>> :> TextFile(5, <<"H","i"," ","$","n">>))
    @@ (<<SegW, SegTemplatesBak, TplName>> :> TextFile(3, <<"o","l","d">>))
    @@ (<<SegEtc, SegPasswd>> :> TextFile(4, <<"r","o","o","t">>))

TemplateConfigPath == RelPath(<<SegPrompts, FileCfg>>)

TemplateFilesWith(template_name) ==
    TemplateFiles
    @@ (<<SegW, SegPrompts, FileCfg>> :>
            ConfigFile(GoodJson(FixtureDoc(template_name, <<"o","u","t">>,
                                           EmptyMembers))))

InitTemplate ==
    /\ call \in {[fn |-> "load_template", template_path |-> p,
                  files |-> TemplateFiles] : p \in TemplatePathInputs}
            \cup {[fn |-> "process_prompt", config_path |-> TemplateConfigPath,
                   template |-> n, files |-> TemplateFilesWith(n)] :
                    n \in TemplateNameInputs}
    /\ ret = NotReturned
    /\ MainIdle

CallLoadTemplate ==
    /\ call.fn = "load_template"
    /\ ~ret.done
    /\ ret' = [done |-> TRUE,
               value |-> load_template(call.files, call.template_path),
               calls |-> <<"load_template">>,
               stats |-> LoadTemplateStats(call.files, call.template_path),
               opened |-> LoadTemplateOpens(call.files, call.template_path)]
    /\ UNCHANGED <<call, mainvars>>

\* process_prompt up to line 513: load_config, the extraction, load_template
CallProcessPromptLoad ==
    /\ call.fn = "process_prompt"
    /\ ~ret.done
    /\ LET l == LoadAndExtract(call.files, call.config_path) IN
        ret' = IF l.raised
               THEN [done |-> TRUE, value |-> l, calls |-> <<"load_config">>,
                     stats |-> {},
                     opened |-> LoadConfigOpens(call.files, call.config_path)]
               ELSE [done |-> TRUE,
                     value |-> load_template(call.files, l.value.template_path),
                     calls |-> <<"load_config", "load_template">>,
                     stats |-> LoadTemplateStats(call.files, l.value.template_path),
                     opened |-> LoadConfigOpens(call.files, call.config_path)
                                \cup LoadTemplateOpens(call.files,
                                                       l.value.template_path)]
    /\ UNCHANGED <<call, mainvars>>

NextTemplate == CallLoadTemplate \/ CallProcessPromptLoad

SpecTemplate == InitTemplate /\ [][NextTemplate]_vars

C11_WitnessConfig ==
    /\ ret.done
    /\ call.fn = "process_prompt"
    /\ call.template = TraversalName
    /\ ret.calls = <<"load_config">>

\* what the path check lets through: a sibling directory whose name extends
\* the templates directory's name is read (the prefix test of line 183)
C11_SiblingIsRead ==
    /\ ret.done
    /\ call.fn = "load_template"
    /\ call.template_path = RelPath(<<SegTemplates, DotDot, SegTemplatesBak, TplName>>)
    /\ ~ret.value.raised

-----------------------------------------------------------------------------
(* Bounded inputs of render_template                                       *)

MaxTemplateLen == 4

TemplateAlphabet == {"$", "{", "}", "a", "b"}

TemplateTexts == UNION {[1..n -> TemplateAlphabet] : n \in 0..MaxTemplateLen}

RenderKeys == {<<"a">>, <<"b">>}

\* a string, a string that looks like a placeholder, a number
RenderValues == {JStr(<<"x">>), JStr(<<"$","a">>), JNum(1500)}

RenderVariables ==
    UNION {{JObj(f) : f \in [ks -> RenderValues]} : ks \in SUBSET RenderKeys}

\* the variable maps of a second rendering
RenderAgainVariables ==
    {JObj(EmptyMembers),
     JObj([k \in RenderKeys |-> JStr(<<"x">>)]),
     JObj([k \in RenderKeys |-> JStr(<<"$","a">>)])}

InitRender ==
    /\ call \in {[fn |-> "render_template", template_content |-> s, variables |-> v] :
                    s \in TemplateTexts, v \in RenderVariables}
    /\ ret = NotReturned
    /\ MainIdle

CallRender ==
    /\ call.fn = "render_template"
    /\ ~ret.done
    /\ ret' = [done |-> TRUE,
               value |-> render_template(call.template_content, call.variables),
               again |-> NotReturned]
    /\ UNCHANGED <<call, mainvars>>

\* the result of a rendering, rendered once more with the same or another map
CallRenderAgain ==
    /\ call.fn = "render_template"
    /\ ret.done
    /\ ~ret.value.raised
    /\ ~ret.again.done
    /\ \E v \in RenderAgainVariables \cup {call.variables} :
        ret' = [ret EXCEPT !.again =
                   [done |-> TRUE, variables |-> v,
                    value |-> render_template(ret.value.value, v)]]
    /\ UNCHANGED <<call, mainvars>>

NextRender == CallRender \/ CallRenderAgain

SpecRender == InitRender /\ [][NextRender]_vars

-----------------------------------------------------------------------------
(* The placeholder syntax as the specification gives it: $identifier or    *)
(* ${identifier}                                                           *)

BracedAt(s, i) ==
    /\ i + 2 <= Len(s)
    /\ s[i + 1] = "{"
    /\ s[i + 2] \in IdStart
    /\ IdEnd(s, i + 2) + 1 <= Len(s)
    /\ s[IdEnd(s, i + 2) + 1] = "}"

PlaceholderAt(s, i) ==
    /\ s[i] = "$"
    /\ \/ i + 1 <= Len(s) /\ s[i + 1] \in IdStart
       \/ BracedAt(s, i)

PlaceholderName(s, i) ==
    IF BracedAt(s, i) THEN SubSeq(s, i + 2, IdEnd(s, i + 2))
    ELSE SubSeq(s, i + 1, IdEnd(s, i + 1))

\* the index of the last character of the placeholder at i
PlaceholderEnd(s, i) ==
    IF BracedAt(s, i) THEN IdEnd(s, i + 2) + 1 ELSE IdEnd(s, i + 1)

Placeholders(s) == {i \in 1..Len(s) : PlaceholderAt(s, i)}

HasKey(variables, name) == name \in DOMAIN variables.members

AllResolved(s, variables) ==
    \A i \in Placeholders(s) : HasKey(variables, PlaceholderName(s, i))

\* a "$" followed by an identifier, plain or braced, is left in the text
HasDollarIdentifier(s) == Placeholders(s) # {}

\* every "$" of the text begins a placeholder
WellFormed(s) == \A i \in 1..Len(s) : s[i] = "$" => PlaceholderAt(s, i)

\* the text with each placeholder replaced by its value, left to right
RECURSIVE Expand(_, _, _)
Expand(s, i, variables) ==
    IF i > Len(s) THEN <<>>
    ELSE IF s[i] # "$" THEN <<s[i]>> \o Expand(s, i + 1, variables)
    ELSE PyStr(variables.members[PlaceholderName(s, i)])
         \o Expand(s, PlaceholderEnd(s, i) + 1, variables)

\* the values of the placeholders of the text hold no "$"
ValuesDollarFree(s, variables) ==
    \A i \in Placeholders(s) :
        HasKey(variables, PlaceholderName(s, i)) =>
            ~Contains(PyStr(variables.members[PlaceholderName(s, i)]), <<"$">>)

(* C12 (as claimed): when every placeholder has a matching key the         *)
(* rendering succeeds and its result holds no "$"-prefixed identifier,     *)
(* whatever the values are.                                                *)
C12_RenderComplete ==
    (ret.done /\ call.fn = "render_template"
     /\ AllResolved(call.template_content, call.variables))
        => /\ ~ret.value.raised
           /\ ~HasDollarIdentifier(ret.value.value)

(* C12 (amended): when every "$" of the template begins a placeholder and  *)
(* every placeholder has a matching key, the rendering succeeds and its    *)
(* result is the template with each placeholder replaced by str(value);    *)
(* it holds no "$" at all when no substituted value holds one.             *)
C12_RenderWellFormed ==
    (ret.done /\ call.fn = "render_template"
     /\ WellFormed(call.template_content)
     /\ AllResolved(call.template_content, call.variables))
        => /\ ~ret.value.raised
           /\ ret.value.value = Expand(call.template_content, 1, call.variables)
           /\ ValuesDollarFree(call.template_content, call.variables)
                 => ~Contains(ret.value.value, <<"$">>)

\* "${a}$b" with a = 1.5 and b = "x" renders to "1.5x"
C12_Witness ==
    /\ ret.done
    /\ call.fn = "render_template"
    /\ call.template_content = <<"$","{","a","}">>
    /\ HasKey(call.variables, <<"a">>)
    /\ call.variables.members[<<"a">>] = JNum(1500)
    /\ ret.value = Return(<<"1",".","5">>)

(* C13 (as claimed): a rendering result, rendered again with the same or   *)
(* any other variable map, renders to itself.                              *)
C13_Idempotent ==
    (ret.done /\ call.fn = "render_template" /\ ~ret.value.raised
     /\ ret.again.done)
        => ret.again.value = Return(ret.value.value)

(* C13 (amended): a rendering result that holds no "$" renders to itself   *)
(* with every variable map; a result that holds a "$" (left by an escaped  *)
(* "$$" or by a value) does not render to itself with the empty map.  A    *)
(* result holds no "$" when the template has no "$$" and no substituted    *)
(* value holds one.                                                        *)
C13_IdempotentWithoutDollar ==
    (ret.done /\ call.fn = "render_template" /\ ~ret.value.raised)
        => /\ (ret.again.done /\ ~Contains(ret.value.value, <<"$">>))
                 => ret.again.value = Return(ret.value.value)
           /\ (/\ ret.again.done
               /\ Contains(ret.value.value, <<"$">>)
               /\ ret.again.variables = JObj(EmptyMembers))
                 => ret.again.value # Return(ret.value.value)
           /\ (/\ ~Contains(call.template_content, <<"$","$">>)
               /\ ValuesDollarFree(call.template_content, call.variables))
                 => ~Contains(ret.value.value, <<"$">>)

\* "a$b" with b = "x" renders to "ax", which renders to "ax" with another map
C13_Witness ==
    /\ ret.done
    /\ call.fn = "render_template"
    /\ call.template_content = <<"a","$","b">>
    /\ ret.value = Return(<<"a","x">>)
    /\ ret.again.done
    /\ ret.again.variables # call.variables
    /\ ret.again.value = Return(<<"a","x">>)

\* the missing-variable error that names the given placeholder
IsMissingVariableError(result, name) ==
    /\ result.raised
    /\ result.exc.type = "ValueError"
    /\ result.exc.msg = "Missing required variable"
    /\ result.exc.key = name

\* the placeholders that have no entry, and the first of them, left to right
Unresolved(s, variables) ==
    {i \in Placeholders(s) : ~HasKey(variables, PlaceholderName(s, i))}

FirstUnresolved(s, variables) ==
    CHOOSE i \in Unresolved(s, variables) :
        \A j \in Unresolved(s, variables) : i <= j

(* C14 (as claimed): a template with a placeholder that has no entry fails *)
(* with the missing-variable error naming the first such placeholder.      *)
C14_MissingNamesFirst ==
    (ret.done /\ call.fn = "render_template"
     /\ Unresolved(call.template_content, call.variables) # {})
        => IsMissingVariableError(ret.value,
              PlaceholderName(call.template_content,
                  FirstUnresolved(call.template_content, call.variables)))

\* the single pass, left to right, with "$$" read as an escaped "$": the
\* first "$" that is neither an escape nor a placeholder with an entry
RECURSIVE FirstProblem(_, _, _)
FirstProblem(s, i, variables) ==
    IF i > Len(s) THEN [kind |-> "none"]
    ELSE IF s[i] # "$" THEN FirstProblem(s, i + 1, variables)
    ELSE IF i + 1 <= Len(s) /\ s[i + 1] = "$"
         THEN FirstProblem(s, i + 2, variables)
    ELSE IF ~PlaceholderAt(s, i) THEN [kind |-> "malformed"]
    ELSE IF ~HasKey(variables, PlaceholderName(s, i))
         THEN [kind |-> "missing", name |-> PlaceholderName(s, i)]
    ELSE FirstProblem(s, PlaceholderEnd(s, i) + 1, variables)

(* C14 (amended): reading the template left to right with "$$" as an       *)
(* escape, if the first "$" that is neither an escape nor a placeholder    *)
(* with an entry is a placeholder, the rendering fails with ValueError     *)
(* "Missing required variable" naming it; if it is a malformed "$", the    *)
(* rendering fails with ValueError "Invalid placeholder"; if there is      *)
(* none, the rendering succeeds.  A failed rendering returns no string.    *)
C14_MissingOrMalformed ==
    (ret.done /\ call.fn = "render_template")
        => LET first == FirstProblem(call.template_content, 1, call.variables) IN
           /\ first.kind = "missing"
                 => IsMissingVariableError(ret.value, first.name)
           /\ first.kind = "malformed"
                 => ret.value = Raise("ValueError", "Invalid placeholder in string")
           /\ first.kind = "none" => ~ret.value.raised
           /\ ret.value.raised => "value" \notin DOMAIN ret.value

\* "$a$b" with only a supplied fails naming b
C14_Witness ==
    /\ ret.done
    /\ call.fn = "render_template"
    /\ call.template_content = <<"$","a","$","b">>
    /\ DOMAIN call.variables.members = {<<"a">>}
    /\ IsMissingVariableError(ret.value, <<"b">>)

-----------------------------------------------------------------------------
(* Claims about the generation call and the upload of a record             *)

\* a model identifier that holds none of the family markers
UnsupportedModelId(v) ==
    /\ v # JNull
    /\ ~Contains(v.s, MarkerClaude)
    /\ ~Contains(v.s, MarkerTitan)

(* C15: for a model identifier without a recognized family marker the      *)
(* record fails at the generation step with the unsupported-model error    *)
(* before any network call: the generation API is not called, no output    *)
(* file is written and nothing is uploaded for it.                         *)
C15_UnsupportedBeforeNetwork ==
    (pc # "unit" /\ idx > 0 /\ UnsupportedModelId(loc.model_id))
        => /\ effects.invoke_calls = 0
           /\ effects.file_writes = 0
           /\ effects.upload_calls = 0
           /\ pc \notin {"save_output", "upload_to_s3", "return"}
           /\ Len(steps) <= 4
           /\ Len(steps) = 4 =>
                 /\ ~steps[4].ok
                 /\ error = Exc("ValueError", "Unsupported model family")
           /\ pc \in {"loop", "summary", "done"} => finished[idx] = "Failed"

\* a record with a meta.llama identifier, ended at the generation step
C15_Witness ==
    /\ pc = "loop"
    /\ idx > 0
    /\ UnsupportedModelId(loc.model_id)
    /\ Len(steps) = 4
    /\ finished[idx] = "Failed"
    /\ effects.invoke_calls = 0

C18_UploadErrorWrapped ==
    (pc # "unit" /\ effects.upload_outcome \notin {"none", "ok"})
        => /\ error = Exc("RuntimeError", "S3 upload failed")
           /\ effects.upload_calls = 1
           /\ ~steps[6].ok
           /\ loc.s3_url = NoLocals.s3_url

\* what upload_to_s3 does ensure: one attempt, no URL and a Failed record
\* after a failed upload, and the wrapped kind for a service error response
C18_FailedUploadGivesNoUrl ==
    (pc # "unit" /\ effects.upload_outcome \notin {"none", "ok"})
        => /\ effects.upload_calls = 1
           /\ ~steps[6].ok
           /\ loc.s3_url = NoLocals.s3_url
           /\ pc \in {"except", "loop", "summary", "done"}
           /\ pc # "except" => finished[idx] = "Failed"
           /\ effects.upload_outcome = "ClientError"
                 => error = Exc("RuntimeError", "S3 upload failed")
           /\ effects.upload_outcome # "ClientError"
                 => error = Exc(effects.upload_outcome, "upload_file")

-----------------------------------------------------------------------------
(* Bounded inputs of invoke_bedrock                                        *)

PromptInputs == {<<"h","i">>, <<>>}

\* no identifier, one of each family, one with both markers, one with the
\* first marker in capitals, one of an unknown family, the empty one
ModelIdInputs ==
    {JNull, JStr(DefaultModelId), JStr(MarkerTitan \o <<"-","t","e","x","t">>),
     JStr(MarkerTitan \o <<"/">> \o MarkerClaude),
     JStr(<<"A","n","t","h","r","o","p","i","c",".","C","l","a","u","d","e">>),
     JStr(<<"m","e","t","a",".","l","l","a","m","a">>), JStr(<<>>)}

ParamKeys == {"max_tokens", "temperature", "top_p"}

GivenParam(key) ==
    IF key = "max_tokens" THEN JNum(100000)
    ELSE IF key = "temperature" THEN JNum(0)
    ELSE JNum(1000)

InvokeParamsInputs ==
    {JNull} \cup {JObj([k \in ks |-> GivenParam(k)]) : ks \in SUBSET ParamKeys}

InitInvoke ==
    /\ call \in {[fn |-> "invoke_bedrock", prompt |-> p, model_id |-> i,
                  model_params |-> mp, outcome |-> o] :
                    p \in PromptInputs, i \in ModelIdInputs,
                    mp \in InvokeParamsInputs, o \in NetOutcomes}
    /\ ret = NotReturned
    /\ MainIdle

CallInvoke ==
    /\ call.fn = "invoke_bedrock"
    /\ ~ret.done
    /\ LET r == invoke_bedrock(call.prompt, call.model_id, call.model_params,
                               call.outcome) IN
        ret' = [done |-> TRUE, value |-> r.result, sent |-> r.sent]
    /\ UNCHANGED <<call, mainvars>>

SpecInvoke == InitInvoke /\ [][CallInvoke]_vars

\* the identifier the call works with
EffectiveModelId(v) == IF v = JNull THEN DefaultModelId ELSE v.s

\* the value the request must carry for a parameter
ExpectedParam(model_params, key, default) ==
    IF model_params # JNull /\ key \in DOMAIN model_params.members
    THEN model_params.members[key]
    ELSE default

(* C16: the family is chosen by substring match on the identifier and is   *)
(* the same for the request and for the extraction: with the first marker  *)
(* a messages-style body is sent and content[0].text returned; with the    *)
(* second marker and not the first an inputText body is sent and           *)
(* results[0].outputText returned; without an identifier the default       *)
(* identifier of the first family is used; each of max_tokens,             *)
(* temperature, top_p that is absent takes its default 2048, 0.7, 0.9.     *)
C16_FamilyAdapter ==
    (ret.done /\ call.fn = "invoke_bedrock") =>
        LET id == EffectiveModelId(call.model_id)
            max_tokens == ExpectedParam(call.model_params, "max_tokens", JNum(2048000))
            temperature == ExpectedParam(call.model_params, "temperature", JNum(700))
            top_p == ExpectedParam(call.model_params, "top_p", JNum(900))
        IN
        /\ call.model_id = JNull => id = DefaultModelId /\ Contains(id, MarkerClaude)
        /\ Contains(id, MarkerClaude) =>
              /\ Len(ret.sent) = 1
              /\ ret.sent[1].modelId = id
              /\ ret.sent[1].body =
                    [anthropic_version |-> "bedrock-2023-05-31",
                     max_tokens |-> max_tokens, temperature |-> temperature,
                     top_p |-> top_p,
                     messages |-> <<[role |-> "user", content |-> call.prompt]>>]
              /\ call.outcome.kind = "response" =>
                    ret.value =
                        Return(ServiceResponseBody(id, call.outcome.text).content[1].text)
        /\ (Contains(id, MarkerTitan) /\ ~Contains(id, MarkerClaude)) =>
              /\ Len(ret.sent) = 1
              /\ ret.sent[1].modelId = id
              /\ ret.sent[1].body =
                    [inputText |-> call.prompt,
                     textGenerationConfig |->
                        [maxTokenCount |-> max_tokens, temperature |-> temperature,
                         topP |-> top_p]]
              /\ call.outcome.kind = "response" =>
                    ret.value =
                        Return(ServiceResponseBody(id, call.outcome.text)
                                   .results[1].outputText)

\* a call of the second family with only temperature given
C16_Witness ==
    /\ ret.done
    /\ call.fn = "invoke_bedrock"
    /\ call.model_id = JStr(MarkerTitan \o <<"-","t","e","x","t">>)
    /\ call.model_params = JObj([k \in {"temperature"} |-> GivenParam(k)])
    /\ call.outcome.kind = "response"
    /\ ret.sent[1].body.textGenerationConfig =
          [maxTokenCount |-> JNum(2048000), temperature |-> JNum(0),
           topP |-> JNum(900)]
    /\ ret.value = Return(call.outcome.text)

\* a call without identifier and without parameters
C16_WitnessDefaults ==
    /\ ret.done
    /\ call.fn = "invoke_bedrock"
    /\ call.model_id = JNull
    /\ call.model_params = JNull
    /\ ret.sent[1].modelId = DefaultModelId
    /\ ret.sent[1].body.max_tokens = JNum(2048000)

-----------------------------------------------------------------------------
(* save_output as a call: what it leaves on the file system                *)

\* lines 381-432, with the outcome of makedirs / open
save_output(files, content, segs, format_type, outcome) ==
    IF outcome = "ok"
    THEN [result |-> Return(<<>>),
          files |-> WriteFile(files, segs, SavedContent(content, format_type))]
    ELSE [result |-> Raise(outcome, "makedirs / open"), files |-> files]

DoctypeLower == <<"<","!","d","o","c","t","y","p","e">>

ContentInputs ==
    {<<>>, <<"o","k">>, <<" ">>, Doctype \o <<" ","h","t","m","l",">">>,
     <<" ", LF>> \o Doctype, HtmlTag \o <<">">>, <<LF>> \o HtmlTag,
     <<"x">> \o Doctype, <<"<","h","t","m">>, DoctypeLower,
     <<"<","p",">">> \o HtmlTag, Doctype \o <<" ">>,
     EnvelopeHead \o <<"o","k">> \o EnvelopeFoot}

FormatInputs == {FormatHtml, FormatMd, <<"t","x","t">>}

SavePath == Cwd \o <<SegOutputs, <<"o","u","t">>>>
OtherPath == Cwd \o <<SegOutputs, <<"k","e","p","t">>>>

SaveFilesInputs ==
    {(OtherPath :> TextFile(1, <<"k">>)),
     (OtherPath :> TextFile(1, <<"k">>)) @@ (SavePath :> TextFile(3, <<"o","l","d">>))}

InitSave ==
    /\ call \in {[fn |-> "save_output", content |-> c, format_type |-> f,
                  files |-> fl, outcome |-> o] :
                    c \in ContentInputs, f \in FormatInputs,
                    fl \in SaveFilesInputs, o \in SaveOutcomes}
    /\ ret = NotReturned
    /\ MainIdle

CallSave ==
    /\ call.fn = "save_output"
    /\ ~ret.done
    /\ LET r == save_output(call.files, call.content, SavePath, call.format_type,
                            call.outcome) IN
        ret' = [done |-> TRUE, value |-> r.result, files |-> r.files,
                again |-> NotReturned]
    /\ UNCHANGED <<call, mainvars>>

\* what the first call wrote, saved once more as html at the same path
CallSaveAgain ==
    /\ call.fn = "save_output"
    /\ ret.done
    /\ ~ret.value.raised
    /\ ~ret.again.done
    /\ LET r == save_output(ret.files, ret.files[SavePath].text, SavePath,
                            FormatHtml, "ok") IN
        ret' = [ret EXCEPT !.again = [done |-> TRUE, files |-> r.files]]
    /\ UNCHANGED <<call, mainvars>>

NextSave == CallSave \/ CallSaveAgain

SpecSave == InitSave /\ [][NextSave]_vars

\* the content starts, after leading white space, with the document
\* declaration "<!DOCTYPE" or with the opening "<html" of a document
StartsWithDeclaration(content) ==
    \E k \in 0..Len(content) :
        /\ \A j \in 1..k : content[j] \in Whitespace
        /\ \/ StartsWith(SubSeq(content, k + 1, Len(content)), Doctype)
           \/ StartsWith(SubSeq(content, k + 1, Len(content)), HtmlTag)

C19_LowerCaseDoctypeIsWrapped ==
    /\ ret.done
    /\ call.fn = "save_output"
    /\ call.content = DoctypeLower
    /\ call.format_type = FormatHtml
    /\ ~ret.value.raised
    /\ ret.files[SavePath].text = EnvelopeHead \o DoctypeLower \o EnvelopeFoot

-----------------------------------------------------------------------------
(* Claims about the output path, the key and the URL of a record           *)

\* the configuration document of the record being processed
CurrentDoc == fs[Resolve(args.config_files[idx]).value].json.doc

\* s without the slashes at its end
WithoutTrailingSlashes(s) ==
    LET n == CHOOSE k \in 0..Len(s) :
                /\ k = 0 \/ s[k] # "/"
                /\ \A j \in (k + 1)..Len(s) : s[j] = "/"
    IN  SubSeq(s, 1, n)

OutputsSlash == <<"o","u","t","p","u","t","s","/">>

ExpectedFormat(doc) ==
    IF "output_format" \in DOMAIN doc.members
    THEN doc.members["output_format"].s
    ELSE <<"h","t","m","l">>

ExpectedLocalPath(doc) ==
    OutputsSlash \o doc.members["output_name"].s \o <<".">> \o ExpectedFormat(doc)

ExpectedKey(prefix, doc) ==
    WithoutTrailingSlashes(prefix) \o <<"/">> \o ExpectedLocalPath(doc)

ExpectedContentType(key) ==
    IF Len(key) >= 5 /\ SubSeq(key, Len(key) - 4, Len(key)) = <<".","h","t","m","l">>
    THEN "text/html"
    ELSE IF Len(key) >= 3 /\ SubSeq(key, Len(key) - 2, Len(key)) = <<".","m","d">>
    THEN "text/markdown"
    ELSE "text/plain"

KeyInputs ==
    {<<"r",".","h","t","m","l">>, <<"n",".","m","d">>, <<"a",".","t","x","t">>,
     <<"h","t","m","l">>, <<"m","d">>, <<>>, <<"a",".","h","t","m","l",".","m","d">>,
     <<"a",".","H","T","M","L">>, <<".","m","d","/">>}

(* C20: for a record that reaches the write step the local path is         *)
(* outputs/<output_name>.<format> and the key is                           *)
(* <p>/outputs/<output_name>.<format>, <p> being the configured prefix     *)
(* without its trailing slashes and <format> the configured output_format  *)
(* or html; the content type follows the extension, and the URL is made    *)
(* of bucket, region and key alone.                                        *)
C20_OutputNaming ==
    /\ \A k \in KeyInputs : ContentType(k) = ExpectedContentType(k)
    /\ (pc # "unit" /\ idx > 0 /\ Len(steps) >= 4 /\ AllOk(4)) =>
        LET doc == CurrentDoc
            key == ExpectedKey(args.prefix, doc)
        IN
        /\ loc.output_path = ExpectedLocalPath(doc)
        /\ effects.file_writes = 1 =>
              Cwd \o <<SegOutputs, doc.members["output_name"].s \o <<".">>
                                   \o ExpectedFormat(doc)>> \in DOMAIN fs
        /\ effects.upload_calls = 1 => loc.s3_key = key
        /\ effects.upload_outcome = "ok" =>
              /\ key \in DOMAIN s3
              /\ s3[key].ContentType = ExpectedContentType(key)
              /\ loc.s3_url = [scheme |-> "https://", bucket |-> args.bucket,
                               dot_s3 |-> ".s3.", region |-> args.region,
                               host |-> ".amazonaws.com/", key |-> key]

\* a markdown record uploaded under the prefix "a//"
C20_Witness ==
    /\ pc = "return"
    /\ args.prefix = PrefixSlashes
    /\ effects.upload_outcome = "ok"
    /\ loc.output_path = <<"o","u","t","p","u","t","s","/","d","o","c",".","m","d">>
    /\ loc.s3_key = <<"a","/","o","u","t","p","u","t","s","/","d","o","c",".","m","d">>
    /\ s3[loc.s3_key].ContentType = "text/markdown"

-----------------------------------------------------------------------------
(* Claims about what a failed upload leaves behind, and about the key      *)

\* the record's upload failed after its write succeeded
UploadFailedAfterWrite ==
    /\ pc # "unit"
    /\ idx > 0
    /\ Len(steps) = 6
    /\ AllOk(5)
    /\ ~steps[6].ok

C21_NoRollbackState ==
    /\ UploadFailedAfterWrite =>
          /\ OutputFile(loc) \in DOMAIN fs
          /\ fs[OutputFile(loc)].text \in
                {loc.generated_content,
                 EnvelopeHead \o loc.generated_content \o EnvelopeFoot}
          /\ Contains(fs[OutputFile(loc)].text, loc.generated_content)
          /\ pc \in {"except", "loop", "summary", "done"}
          /\ Len(results) = Len(EndedIn("Success", Len(finished)))
          /\ pc # "except" =>
                /\ finished[idx] = "Failed"
                /\ failed # <<>>
                /\ failed[Len(failed)] = args.config_files[idx]
    /\ pc # "unit" =>
          /\ \A j \in 1..Len(results) : results[j].status = "success"
          /\ Len(results) = Len(EndedIn("Success", Len(finished)))

\* a step that adds a result does so for a record whose six steps succeeded,
\* and no step removes a file or a result
C21_NoRollbackStep ==
    /\ results' # results =>
          /\ pc = "return"
          /\ Len(steps) = 6
          /\ AllOk(6)
          /\ Len(results') = Len(results) + 1
          /\ SubSeq(results', 1, Len(results)) = results
          /\ results'[Len(results')].status = "success"
          /\ results'[Len(results')].config_path = args.config_files[idx]
    /\ \A f \in DOMAIN fs : f \in DOMAIN fs'
    /\ (UploadFailedAfterWrite /\ idx' = idx) => fs' = fs

(* C21: completed steps are not rolled back: when the upload of a record   *)
(* fails after its write succeeded, the local output file stays in place   *)
(* with the generated content, no result is produced for the record and it *)
(* is counted as failed; a result exists only for a record whose six steps *)
(* all succeeded, and its status is always 'success'.                      *)
C21_NoRollback == []C21_NoRollbackState /\ [][C21_NoRollbackStep]_vars

\* a record whose upload failed, recorded as failed, its file still there
C21_Witness ==
    /\ UploadFailedAfterWrite
    /\ pc = "loop"
    /\ finished[idx] = "Failed"
    /\ results = <<>>
    /\ OutputFile(loc) \in DOMAIN fs
    /\ effects.upload_outcome # "ok"

\* the string ends with exactly one "/"
EndsWithOneSlash(s) ==
    /\ Len(s) >= 1
    /\ s[Len(s)] = "/"
    /\ Len(s) >= 2 => s[Len(s) - 1] # "/"

(* C22: for every processor that construction accepts and every            *)
(* configuration that load_config accepts, the key of the upload does not  *)
(* begin with "/", holds no ".." and holds no empty segment "//"; the      *)
(* stored prefix ends with exactly one "/".                                *)
C22_KeyWellFormed ==
    pc # "unit" =>
        /\ processor.exists => EndsWithOneSlash(processor.s3_prefix)
        /\ effects.upload_calls = 1 =>
              /\ loc.s3_key # <<>>
              /\ Head(loc.s3_key) # "/"
              /\ ~Contains(loc.s3_key, <<".", ".">>)
              /\ ~Contains(loc.s3_key, <<"/", "/">>)

\* what the code does ensure: the stored prefix ends with exactly one "/",
\* the key holds no "..", and the key is well-formed whenever the given
\* prefix is not empty and holds no "//" before its end
C22_KeyWithoutParentSegment ==
    pc # "unit" =>
        /\ processor.exists => EndsWithOneSlash(processor.s3_prefix)
        /\ effects.upload_calls = 1 =>
              /\ ~Contains(loc.s3_key, <<".", ".">>)
              /\ (/\ WithoutTrailingSlashes(args.prefix) # <<>>
                  /\ ~Contains(WithoutTrailingSlashes(args.prefix), <<"/", "/">>))
                    => /\ Head(loc.s3_key) # "/"
                       /\ ~Contains(loc.s3_key, <<"/", "/">>)
              /\ args.prefix = <<>> => Head(loc.s3_key) = "/"

====
